---- MODULE Spec2Model ----
(***************************************************************************)
(* wwebs: the recursive path resolution engine (Server::exec), its hook    *)
(* pipeline, the process invoker (Server::run_cgi) and the stderr control  *)
(* line protocol (parse_output_commands), as a state machine.              *)
(*                                                                         *)
(* Strings are TLA+ strings; Len, Head, Tail, SubSeq and \o act on them    *)
(* character by character.  Option<T> is a sequence of length at most 1.   *)
(* A process' error stream is given as its sequence of lines (str::lines)  *)
(* and a flag telling whether its bytes are valid UTF-8; a byte body is a  *)
(* string.                                                                 *)
(***************************************************************************)
EXTENDS Integers, Sequences, FiniteSets, TLC

\* ------------------------------------------------------------------------
\* Bounds of the model
\* ------------------------------------------------------------------------
\* Deepest `segment` argument of exec the model follows.
MaxDepth == 5

\* Concurrent connections (one tokio task per connection).
Conns == {1, 2}

\* ------------------------------------------------------------------------
\* Option, strings
\* ------------------------------------------------------------------------
None == <<>>
Some(v) == <<v>>
IsSome(o) == Len(o) = 1
UnwrapOr(o, d) == IF Len(o) = 1 THEN o[1] ELSE d

\* The printable ASCII characters used by the model, in byte order.
AsciiOrder == " %+-./0123456789=ABCDEFGHIJKLMNOPQRSTUVWXYZ_abcdefghijklmnopqrstuvwxyz"

CharAt(s, i) == SubSeq(s, i, i)

Ord(c) == CHOOSE i \in 1..Len(AsciiOrder) : CharAt(AsciiOrder, i) = c

\* str::starts_with
StartsWith(s, p) == Len(s) >= Len(p) /\ SubSeq(s, 1, Len(p)) = p

\* str::strip_prefix, for a string known to start with p
StripPrefix(s, p) == SubSeq(s, Len(p) + 1, Len(s))

\* str::find(char): 1-based index of the first occurrence, 0 when absent
Find(s, c) ==
  LET hits == {i \in 1..Len(s) : CharAt(s, i) = c}
  IN IF hits = {} THEN 0 ELSE CHOOSE i \in hits : \A j \in hits : i <= j

\* Ord for String: byte-wise lexicographic order (a < b)
RECURSIVE StrLess(_, _)
StrLess(a, b) ==
  IF Len(b) = 0 THEN FALSE
  ELSE IF Len(a) = 0 THEN TRUE
  ELSE IF Head(a) = Head(b) THEN StrLess(Tail(a), Tail(b))
  ELSE Ord(Head(a)) < Ord(Head(b))

\* Vec::sort on strings (insertion of each element at its place)
RECURSIVE SortInsert(_, _)
SortInsert(sorted, x) ==
  IF sorted = <<>> THEN <<x>>
  ELSE IF StrLess(x, Head(sorted)) THEN <<x>> \o sorted
  ELSE <<Head(sorted)>> \o SortInsert(Tail(sorted), x)

RECURSIVE Sort(_)
Sort(v) == IF v = <<>> THEN <<>> ELSE SortInsert(Sort(Tail(v)), Head(v))

Digits == "0123456789"

IsDigit(c) == Find(Digits, c) > 0

DigitVal(c) == Find(Digits, c) - 1

\* u16::to_string
RECURSIVE to_string(_)
to_string(n) ==
  IF n < 10 THEN CharAt(Digits, n + 1)
  ELSE to_string(n \div 10) \o CharAt(Digits, (n % 10) + 1)

RECURSIVE DigitsValue(_, _)
DigitsValue(s, acc) ==
  IF Len(s) = 0 THEN acc ELSE DigitsValue(Tail(s), acc * 10 + DigitVal(Head(s)))

U16Max == 65535

\* str::parse::<u16>: an optional '+', then one or more digits, no overflow
ParseU16(s) ==
  LET d == IF Len(s) > 0 /\ Head(s) = "+" THEN Tail(s) ELSE s
  IN IF Len(d) = 0 \/ Len(d) > 6 \/ \E i \in 1..Len(d) : ~IsDigit(CharAt(d, i))
       THEN None
     ELSE IF DigitsValue(d, 0) > U16Max THEN None
     ELSE Some(DigitsValue(d, 0))

\* ------------------------------------------------------------------------
\* HashMap<String, String> as a function
\* ------------------------------------------------------------------------
EmptyMap == <<>>

\* HashMap::insert
MapInsert(m, k, v) == [x \in DOMAIN m \cup {k} |-> IF x = k THEN v ELSE m[x]]

\* HashMap::remove
MapRemove(m, k) == [x \in DOMAIN m \ {k} |-> m[x]]

\* ------------------------------------------------------------------------
\* structures::Response
\* ------------------------------------------------------------------------
\* Response::default()
DefaultResponse == [status |-> 0, headers |-> EmptyMap, body |-> ""]

\* Response::is_ok
is_ok(r) == r.status = 0 \/ (r.status >= 200 /\ r.status < 300)

\* Response::internal_server_error
internal_server_error ==
  [status |-> 500, headers |-> EmptyMap, body |-> "INTERNAL SERVER ERROR"]

NotFound == [status |-> 404, headers |-> EmptyMap, body |-> ""]

\* ------------------------------------------------------------------------
\* gemini: impl From<Response> for GResponse
\* ------------------------------------------------------------------------
\* A body that is not valid UTF-8 (the byte 0xFF)
BinaryBody == "<ff>"

\* String::from_utf8
from_utf8(bytes) == IF bytes = BinaryBody THEN None ELSE Some(bytes)

\* HashMap::get
MapGet(m, k) == IF k \in DOMAIN m THEN Some(m[k]) ELSE None

\* GeminiStatus with the catch-all of the 5xx range before its single codes
GeminiStatus_RangeFirst(res) ==
  LET n == res.status
  IN IF n = 0 THEN 20
     ELSE IF n < 62 THEN n
     ELSE IF is_ok(res) THEN 20
     ELSE IF n >= 300 /\ n < 400 THEN 30
     ELSE IF n >= 500 /\ n < 600 THEN 40
     ELSE IF n = 404 THEN 51
     ELSE IF n = 410 THEN 52
     ELSE IF n = 400 THEN 59
     ELSE IF n = 401 THEN 60
     ELSE IF n = 403 THEN 61
     ELSE IF n = 600 THEN 10
     ELSE IF n = 601 THEN 11
     ELSE 42

\* Lines 187-223: the match on res.status, arm by arm
GeminiStatus(res) ==
  LET n == res.status
  IN IF n = 0 THEN 20
     ELSE IF n < 62 THEN n
     ELSE IF is_ok(res) THEN 20
     ELSE IF n = 301 THEN 31
     ELSE IF n = 302 THEN 30
     ELSE IF n >= 300 /\ n < 400 THEN 30
     ELSE IF n = 503 THEN 41
     ELSE IF n = 500 THEN 42
     ELSE IF n = 502 THEN 43
     ELSE IF n = 429 THEN 44
     ELSE IF n >= 500 /\ n < 600 THEN 40
     ELSE IF n = 404 THEN 51
     ELSE IF n = 410 THEN 52
     ELSE IF n = 400 THEN 59
     ELSE IF n = 401 THEN 60
     ELSE IF n = 403 THEN 61
     ELSE IF n = 600 THEN 10
     ELSE IF n = 601 THEN 11
     ELSE 42

BinaryDefault == "application/octet-stream"
NotAString == "Body wasn't a string when it should have been"

\* Lines 226-248: the metadata
GeminiMeta(res, status) ==
  IF is_ok(res)
    THEN (IF "GEMINI_META" \in DOMAIN res.headers THEN res.headers["GEMINI_META"]
          ELSE IF "Content-Type" \in DOMAIN res.headers THEN res.headers["Content-Type"]
          ELSE BinaryDefault)
  ELSE IF status >= 30 /\ status < 40
    THEN UnwrapOr(MapGet(res.headers, "Location"), "/")
  ELSE IF (status >= 40 /\ status < 62) \/ (status >= 0 /\ status < 10)
    THEN UnwrapOr(from_utf8(res.body), "???")
  ELSE NotAString

\* GResponse::from(res)
GResponseFrom(res) ==
  [status |-> GeminiStatus(res),
   meta |-> GeminiMeta(res, GeminiStatus(res)),
   body |-> IF is_ok(res) THEN res.body ELSE ""]

\* ------------------------------------------------------------------------
\* files::wwebs::WWebS
\* ------------------------------------------------------------------------
\* WWebS { resolution: Option<ResolutionInfo>, env: Option<HashMap> }
WWebS(resolution, env) == [resolution |-> resolution, env |-> env]

ResolutionInfo(index) == [index |-> index]

\* WWebS::default()
DefaultConfig == WWebS(None, None)

\* impl BitAnd for ResolutionInfo
ResolutionBitAnd(a, b) ==
  ResolutionInfo(IF IsSome(b.index) THEN b.index ELSE a.index)

\* BitAnd with the left operand's value kept for a key in both maps
BitAnd_LeftBiased(a, b) ==
  WWebS(IF IsSome(a.resolution) /\ IsSome(b.resolution)
          THEN Some(ResolutionBitAnd(a.resolution[1], b.resolution[1]))
        ELSE IF IsSome(a.resolution) THEN a.resolution
        ELSE b.resolution,
        IF IsSome(a.env) /\ IsSome(b.env)
          THEN Some([k \in DOMAIN a.env[1] \cup DOMAIN b.env[1] |->
                       IF k \in DOMAIN a.env[1] THEN a.env[1][k] ELSE b.env[1][k]])
        ELSE IF IsSome(a.env) THEN a.env
        ELSE b.env)

\* BitAnd as an intersection: a field is kept only if both operands set it
BitAnd_Intersect(a, b) ==
  WWebS(IF IsSome(a.resolution) /\ IsSome(b.resolution)
          THEN Some(ResolutionBitAnd(a.resolution[1], b.resolution[1]))
        ELSE None,
        IF IsSome(a.env) /\ IsSome(b.env)
          THEN Some([k \in DOMAIN a.env[1] \cup DOMAIN b.env[1] |->
                       IF k \in DOMAIN b.env[1] THEN b.env[1][k] ELSE a.env[1][k]])
        ELSE None)

\* impl BitAnd for WWebS
BitAnd(a, b) ==
  WWebS(IF IsSome(a.resolution) /\ IsSome(b.resolution)
          THEN Some(ResolutionBitAnd(a.resolution[1], b.resolution[1]))
        ELSE IF IsSome(a.resolution) THEN a.resolution
        ELSE b.resolution,
        IF IsSome(a.env) /\ IsSome(b.env)
          THEN Some([k \in DOMAIN a.env[1] \cup DOMAIN b.env[1] |->
                       IF k \in DOMAIN b.env[1] THEN b.env[1][k] ELSE a.env[1][k]])
        ELSE IF IsSome(a.env) THEN a.env
        ELSE b.env)

\* ------------------------------------------------------------------------
\* External programs
\* ------------------------------------------------------------------------
\* What an executable does when the invoker runs it:
\*   create  Popen::create succeeds
\*   comm    communicate_bytes succeeds
\*   exit    what wait() gives: <<"Exited", n>>, <<"Signaled", n>> or
\*           <<"WaitErr">> (wait() returned Err)
\*   out     its output stream, err the lines of its error stream
\*   echo    a filter: the output stream is out followed by the input
\*           stream, and the STATUS it was given is reported back with a
\*           `status` line
\*   utf8    the bytes of the error stream are valid UTF-8
Program(create, comm, exit, out, err, echo, utf8) ==
  [create |-> create, comm |-> comm, exit |-> exit, out |-> out, err |-> err,
   echo |-> echo, utf8 |-> utf8]

Exits(code, out, err) == Program(TRUE, TRUE, <<"Exited", code>>, out, err, FALSE, TRUE)

NoProgram == Exits(0, "", <<>>)

PassProg == Exits(0, "gk-out", <<"header X-Gk yes">>)
Deny403 == Exits(0, "Forbidden", <<"status 403">>)
Deny401 == Exits(1, "Unauthorized", <<"header WWW-Authenticate Basic", "status 401">>)
ReqTProg == Exits(0, "rewritten", <<"header X-Req set">>)
ReqTDrop == Exits(0, "dropped", <<"header Host ", "header X-Req again">>)
ResTWrap == Exits(0, "wrapped", <<"header X-Res yes">>)
ResTEcho == Program(TRUE, TRUE, <<"Exited", 0>>, "", <<>>, TRUE, TRUE)
ResTPrefix == Program(TRUE, TRUE, <<"Exited", 0>>, "<<", <<>>, TRUE, TRUE)
LoggerProg == Exits(3, "logged", <<"log seen", "status 500", "header X-Log 1">>)

Cgi201 == Exits(0, "body", <<"status 201", "header X-Test hello">>)
CgiMany ==
  Exits(0, "many", <<"header X a b", "status 404", "log note", "stray line",
                     "header X c", "header Y", "status 202", "status">>)
CgiBadStatus == Exits(0, "bad", <<"status 2x1">>)
CgiBigStatus == Exits(0, "big", <<"status 70000">>)
CgiStatus0 == Exits(7, "zero", <<"status 0">>)
CgiPlain == Exits(0, "plain", <<>>)
CgiExit1 == Exits(1, "one", <<"log failed">>)
CgiExit200 == Exits(200, "twohundred", <<>>)
CgiExit255 == Exits(255, "last", <<"header X-Code 255">>)
CgiNoSpawn == Program(FALSE, TRUE, <<"Exited", 0>>, "never", <<"status 201">>, FALSE, TRUE)
CgiNoComm ==
  Program(TRUE, FALSE, <<"Exited", 0>>, "lost", <<"status 201", "header X-Test hello">>,
          FALSE, TRUE)
CgiWaitErr ==
  Program(TRUE, TRUE, <<"WaitErr">>, "partial", <<"header X-Test hello">>, FALSE, TRUE)
CgiWaitErrStatus ==
  Program(TRUE, TRUE, <<"WaitErr">>, "partial", <<"status 201">>, FALSE, TRUE)
CgiSignaled == Program(TRUE, TRUE, <<"Signaled", 9>>, "killed", <<>>, FALSE, TRUE)
CgiBinaryErr ==
  Program(TRUE, TRUE, <<"Exited", 0>>, "binary", <<"status 201", "header X-Test hello">>,
          FALSE, FALSE)
\* A program that neither closes its streams nor exits: communicate_bytes
\* and wait never return
CgiHangs == Program(TRUE, TRUE, <<"Never">>, "", <<>>, FALSE, TRUE)

CgiPrograms ==
  {Cgi201, CgiMany, CgiBadStatus, CgiBigStatus, CgiStatus0, CgiPlain, CgiExit1,
   CgiExit200, CgiExit255, CgiNoSpawn, CgiNoComm, CgiWaitErr, CgiWaitErrStatus,
   CgiSignaled, CgiBinaryErr, ResTEcho}

\* The program's output stream, given what it read on its input stream
Stdout(prog, stdin) == IF prog.echo THEN prog.out \o stdin ELSE prog.out

\* The lines of the program's error stream, given its environment
Stderr(prog, env) ==
  IF prog.echo /\ "STATUS" \in DOMAIN env
    THEN prog.err \o <<"status " \o env["STATUS"]>>
    ELSE prog.err

\* String::from_utf8(stderr).unwrap_or_else(String::default).lines(): the
\* lines of the error stream, none when its bytes are not valid UTF-8
Lines(prog, env) == IF prog.utf8 THEN Stderr(prog, env) ELSE <<>>

\* ------------------------------------------------------------------------
\* parse_output_commands
\* ------------------------------------------------------------------------
\* ParseLine with the value of a header taken from the space on
ParseLine_OffByOne(line, response) ==
  IF StartsWith(line, "log ") THEN response
  ELSE IF StartsWith(line, "header ") THEN
    LET pair == StripPrefix(line, "header ")
        split == Find(pair, " ")
    IN IF split = 0 THEN response
       ELSE [response EXCEPT
               !.headers = MapInsert(@, SubSeq(pair, 1, split - 1),
                                        SubSeq(pair, split, Len(pair)))]
  ELSE IF StartsWith(line, "status ") THEN
    [response EXCEPT !.status = UnwrapOr(ParseU16(StripPrefix(line, "status ")), 500)]
  ELSE response

\* One line of the error stream applied to the response
ParseLine(line, response) ==
  IF StartsWith(line, "log ") THEN response
  ELSE IF StartsWith(line, "header ") THEN
    LET pair == StripPrefix(line, "header ")
        split == Find(pair, " ")
    IN IF split = 0 THEN response
       ELSE [response EXCEPT
               !.headers = MapInsert(@, SubSeq(pair, 1, split - 1),
                                        SubSeq(pair, split + 1, Len(pair)))]
  ELSE IF StartsWith(line, "status ") THEN
    [response EXCEPT !.status = UnwrapOr(ParseU16(StripPrefix(line, "status ")), 500)]
  ELSE response

RECURSIVE parse_output_commands(_, _)
parse_output_commands(stderr, response) ==
  IF stderr = <<>> THEN response
  ELSE parse_output_commands(Tail(stderr), ParseLine(Head(stderr), response))

\* ------------------------------------------------------------------------
\* Server::run_cgi, after the process was created
\* ------------------------------------------------------------------------
\* ExitToStatus with every exit code but 0 taken as a failure
ExitToStatus_ZeroOnly(exit) == IF exit = <<"Exited", 0>> THEN 200 ELSE 500

\* The status the response is built with (the match on exit_status);
\* a failed wait() counts as Exited(500)
ExitToStatus(exit) ==
  IF exit[1] = "WaitErr" THEN 500 % (U16Max + 1)
  ELSE IF exit[1] = "Exited" THEN (IF exit[2] = 0 THEN 200 ELSE exit[2] % (U16Max + 1))
  ELSE 500

\* communicate_bytes, wait, build the response, parse the error stream
CgiResponse(prog, stdin, env) ==
  IF ~prog.comm THEN internal_server_error
  ELSE parse_output_commands(Lines(prog, env),
         [status |-> ExitToStatus(prog.exit), headers |-> EmptyMap,
          body |-> Stdout(prog, stdin)])

\* ------------------------------------------------------------------------
\* The filesystem tree under the working directory
\* ------------------------------------------------------------------------
\* A tree is a function from paths (sequences of names below the working
\* directory) to nodes.  r and x are the other-readable and other-executable
\* bits; entries is a directory's listing in on-disk (read_dir) order; data
\* is a file's content; prog is what happens when the entry is executed.
File(r, x, data, prog) ==
  [kind |-> "file", r |-> r, x |-> x, entries |-> <<>>, data |-> data, prog |-> prog]

\* Executing a directory fails in Popen::create.
Dir(r, entries) ==
  [kind |-> "dir", r |-> r, x |-> TRUE, entries |-> entries, data |-> "",
   prog |-> Program(FALSE, FALSE, <<"Exited", 0>>, "", <<>>, FALSE, TRUE)]

Static(data) == File(TRUE, FALSE, data, NoProgram)

DescriptorName == ".wwebs.toml"

\* Descriptor documents
TomlHome == "resolution.index = 'home.html'"
TomlEnv == "env.GREETING = 'hi'"
TomlEmptyRes == "resolution = {}"
TomlEmpty == ""
TomlDot == "resolution.index = '.'"
TomlBlank == "resolution.index = ''"
TomlBroken == "resolution.index ="

\* toml::from_str::<WWebS> on the documents above: Some(config), or None
\* for a document that does not parse
from_str(text) ==
  CASE text = TomlHome -> Some(WWebS(Some(ResolutionInfo(Some("home.html"))), None))
    [] text = TomlEnv -> Some(WWebS(None, Some("GREETING" :> "hi")))
    [] text = TomlEmptyRes -> Some(WWebS(Some(ResolutionInfo(None)), None))
    [] text = TomlEmpty -> Some(WWebS(None, None))
    [] text = TomlDot -> Some(WWebS(Some(ResolutionInfo(Some("."))), None))
    [] text = TomlBlank -> Some(WWebS(Some(ResolutionInfo(Some(""))), None))
    [] OTHER -> None

\* Path::exists, is_dir, is_file
Exists(tree, path) == path \in DOMAIN tree
IsDir(tree, path) == Exists(tree, path) /\ tree[path].kind = "dir"
IsFile(tree, path) == Exists(tree, path) /\ tree[path].kind = "file"

\* Allowed without the permission check
Allowed_ExistsOnly(tree, path) == Exists(tree, path)

\* Lines 187-196: the other-readable and other-executable bits of the
\* candidate, both false when its metadata cannot be read
Allowed(tree, path) == Exists(tree, path) /\ tree[path].r
Executable(tree, path) == Exists(tree, path) /\ tree[path].x

\* Iterator::filter over a Vec<String>
RECURSIVE Filter(_, _)
Filter(v, prefix) ==
  IF v = <<>> THEN <<>>
  ELSE IF StartsWith(Head(v), prefix) THEN <<Head(v)>> \o Filter(Tail(v), prefix)
  ELSE Filter(Tail(v), prefix)

\* get_files_at: the names in the directory, in on-disk order
get_files_at(tree, path) ==
  IF IsDir(tree, path) THEN tree[path].entries ELSE <<>>

\* HooksOf in the order of the listing
HooksOf_Unsorted(files, prefix) == Filter(files, prefix)

\* The hooks of one category: filter by prefix, then sort
HooksOf(files, prefix) == Sort(Filter(files, prefix))

\* extend_config with the descriptor merged into the given configuration
extend_config_Merge(tree, config, path) ==
  LET config_path == Append(path, DescriptorName)
  IN IF IsFile(tree, config_path) /\ IsSome(from_str(tree[config_path].data))
       THEN BitAnd(config, from_str(tree[config_path].data)[1])
       ELSE config

\* Server::extend_config: the directory's descriptor if it can be read and
\* parsed, the given configuration otherwise
extend_config(tree, config, path) ==
  LET config_path == Append(path, DescriptorName)
  IN IF IsFile(tree, config_path) /\ IsSome(from_str(tree[config_path].data))
       THEN from_str(tree[config_path].data)[1]
       ELSE config

\* ------------------------------------------------------------------------
\* structures::Request and its URL
\* ------------------------------------------------------------------------
\* url is the sequence of path segments (Url::path_segments)
Request(proto, verb, url, headers, body) ==
  [proto |-> proto, verb |-> verb, url |-> url, headers |-> headers, body |-> body]

\* The closure of exec: a segment is cut at its first '%'
TruncatePercent(segment) ==
  IF Find(segment, "%") > 0 THEN SubSeq(segment, 1, Find(segment, "%") - 1)
  ELSE segment

\* Iterator::take
Take(v, n) == SubSeq(v, 1, IF n < Len(v) THEN n ELSE Len(v))

\* Iterator::skip
Skip(v, n) == SubSeq(v, n + 1, Len(v))

\* PathBuf from an iterator of strings, as components: an empty string adds
\* no component
RECURSIVE Components(_)
Components(v) ==
  IF v = <<>> THEN <<>>
  ELSE IF Head(v) = "" THEN Components(Tail(v))
  ELSE <<Head(v)>> \o Components(Tail(v))

RECURSIVE MapTruncate(_)
MapTruncate(v) ==
  IF v = <<>> THEN <<>> ELSE <<TruncatePercent(Head(v))>> \o MapTruncate(Tail(v))

\* The candidate path of exec: the first `segment` segments, each cut at
\* '%', joined below the working directory
CandidatePath(url, segment) == Components(MapTruncate(Take(url, segment)))

\* PathBuf::push on the textual path
PathPush(p, c) ==
  IF p = "" THEN c
  ELSE IF CharAt(p, Len(p)) = "/" THEN p \o c
  ELSE p \o "/" \o c

\* PathBuf from an iterator of strings, as text
RECURSIVE PathCollect(_, _)
PathCollect(p, v) ==
  IF v = <<>> THEN p ELSE PathCollect(PathPush(p, Head(v)), Tail(v))

\* Url::path
RECURSIVE UrlPath(_)
UrlPath(url) ==
  IF url = <<>> THEN "" ELSE "/" \o Head(url) \o UrlPath(Tail(url))

\* PathSegmentsMut::push: a dot segment is ignored; a path that is only "/"
\* (one empty segment) gets the segment in place of the empty one; otherwise
\* the segment is added after a '/'
UrlPush(url, segment) ==
  IF segment \in {".", ".."} THEN url
  ELSE IF url = <<"">> THEN <<segment>>
  ELSE Append(url, segment)

HookNames == {".gatekeeper", ".req_transformer", ".logger", ".res_transformer"}

\* run_cgi: the path "inside" the program
InsidePath(path, url) ==
  IF Len(path) < Len(url)
    THEN LET path_starts == IF path[Len(path)] \in HookNames
                              THEN Len(path) - 1 ELSE Len(path)
         IN PathCollect("", Skip(url, path_starts))
    ELSE ""

\* run_cgi: the environment of the process; a later entry for a name
\* stands for that name
RECURSIVE HeaderEnv(_, _)
HeaderEnv(headers, keys) ==
  IF keys = {} THEN EmptyMap
  ELSE LET k == CHOOSE x \in keys : TRUE
       IN (("HEADER_" \o k) :> headers[k]) @@ HeaderEnv(headers, keys \ {k})

SearchPath == "/usr/bin"

Environment(request, config) ==
  ("PATH" :> SearchPath)
    @@ UnwrapOr(config.env, EmptyMap)
    @@ ("REQUESTED" :> UrlPath(request.url))
    @@ ("VERB" :> request.verb)
    @@ HeaderEnv(request.headers, DOMAIN request.headers)
    @@ ("PROTO" :> request.proto)

\* ------------------------------------------------------------------------
\* The trees and requests of the model
\* ------------------------------------------------------------------------
\* A directory's hooks: <<name, program>> pairs in on-disk order
HooksNone == <<>>
HooksPass == << <<".gatekeeper1", PassProg>> >>
HooksDeny == << <<".logger1", LoggerProg>>, <<".gatekeeper0", Deny403>> >>
HooksDenyTwice == << <<".gatekeeper2", Deny401>>, <<".gatekeeper1", Deny403>> >>
HooksDenyThenPass == << <<".gatekeeper2", PassProg>>, <<".gatekeeper1", Deny403>> >>
HooksPassThenDeny == << <<".gatekeeper2", Deny403>>, <<".gatekeeper1", PassProg>> >>
HooksDenyTen ==
  << <<".gatekeeper2", Deny403>>, <<".gatekeeper10", Deny401>>, <<".gatekeeper", PassProg>> >>
HooksNoSpawn == << <<".gatekeeper1", CgiNoSpawn>>, <<".logger1", CgiNoComm>> >>
HooksFull ==
  << <<".res_transformer2", ResTEcho>>, <<".logger1", LoggerProg>>,
     <<".req_transformer1", ReqTProg>>, <<".gatekeeper1", PassProg>>,
     <<".res_transformer1", ResTWrap>>, <<".req_transformer0", Deny403>>,
     <<".logger0", CgiStatus0>> >>
HooksDenyFull ==
  << <<".res_transformer1", ResTWrap>>, <<".logger1", LoggerProg>>,
     <<".req_transformer1", ReqTProg>>, <<".gatekeeper0", Deny403>> >>
HooksDenyEcho ==
  << <<".logger1", LoggerProg>>, <<".res_transformer1", ResTEcho>>,
     <<".gatekeeper0", Deny403>> >>
HooksLate ==
  << <<".res_transformer1", CgiStatus0>>, <<".logger1", LoggerProg>>,
     <<".req_transformer1", ReqTProg>> >>

HooksWrap ==
  << <<".res_transformer1", ResTPrefix>>, <<".logger1", LoggerProg>>,
     <<".req_transformer1", ReqTProg>>, <<".gatekeeper1", PassProg>> >>

HooksChain ==
  << <<".req_transformer2", ReqTDrop>>, <<".req_transformer1", ReqTProg>> >>

HooksReqDeny == << <<".req_transformer1", Deny403>> >>

HookSets ==
  {HooksNone, HooksWrap, HooksChain, HooksReqDeny, HooksPass, HooksDeny, HooksDenyTwice, HooksDenyThenPass,
   HooksPassThenDeny, HooksDenyTen, HooksNoSpawn, HooksFull, HooksDenyFull,
   HooksDenyEcho, HooksLate}

Descriptors ==
  {None, Some(TomlHome), Some(TomlEnv), Some(TomlEmptyRes), Some(TomlEmpty),
   Some(TomlDot), Some(TomlBlank), Some(TomlBroken)}

RECURSIVE HookEntryNames(_)
HookEntryNames(hooks) ==
  IF hooks = <<>> THEN <<>> ELSE <<Head(hooks)[1]>> \o HookEntryNames(Tail(hooks))

RECURSIVE HookNodes(_, _)
HookNodes(dir, hooks) ==
  IF hooks = <<>> THEN <<>>
  ELSE (Append(dir, Head(hooks)[1]) :> File(TRUE, TRUE, "", Head(hooks)[2]))
         @@ HookNodes(dir, Tail(hooks))

DescriptorEntry(desc) == IF IsSome(desc) THEN <<DescriptorName>> ELSE <<>>

DescriptorNode(dir, desc) ==
  IF IsSome(desc) THEN Append(dir, DescriptorName) :> File(TRUE, FALSE, desc[1], NoProgram)
  ELSE <<>>

\* The shape of a tree:
\*   index  what index.html in the working directory is
\*   a      what the directory A is
\*   h0 hA  the hooks of the working directory and of A
\*   d0 dA dB  the descriptors of the working directory, of A and of A/B
\*   cgi    the program in the file cgi
Shape(index, a, h0, hA, d0, dA, dB, cgi) ==
  [index |-> index, a |-> a, h0 |-> h0, hA |-> hA, d0 |-> d0, dA |-> dA,
   dB |-> dB, cgi |-> cgi]

IndexKinds == {"absent", "static", "hidden", "hiddenexec", "exec", "dir"}
AKinds == {"absent", "dir", "hidden"}

IndexNodes(kind) ==
  CASE kind = "static" -> <<"index.html">> :> Static("Hello")
    [] kind = "hidden" -> <<"index.html">> :> File(FALSE, FALSE, "Hidden", NoProgram)
    [] kind = "hiddenexec" -> <<"index.html">> :> File(FALSE, TRUE, "", Cgi201)
    [] kind = "exec" -> <<"index.html">> :> File(TRUE, TRUE, "", Cgi201)
    [] kind = "dir" -> (<<"index.html">> :> Dir(TRUE, <<"inner.html">>))
                         @@ (<<"index.html", "inner.html">> :> Static("Inner"))
    [] OTHER -> <<>>

ANodes(sh) ==
  IF sh.a = "absent" THEN <<>>
  ELSE (<<"A">> :> Dir(sh.a = "dir",
                       HookEntryNames(sh.hA) \o <<"index.html", "B", "home.html">>
                         \o DescriptorEntry(sh.dA)))
         @@ HookNodes(<<"A">>, sh.hA)
         @@ DescriptorNode(<<"A">>, sh.dA)
         @@ (<<"A", "index.html">> :> Static("AIndex"))
         @@ (<<"A", "home.html">> :> Static("AHome"))
         @@ (<<"A", "B">> :> Dir(TRUE, <<"index.html", "home.html">> \o DescriptorEntry(sh.dB)))
         @@ DescriptorNode(<<"A", "B">>, sh.dB)
         @@ (<<"A", "B", "index.html">> :> Static("BIndex"))
         @@ (<<"A", "B", "home.html">> :> Static("BHome"))

Tree(sh) ==
  (<<>> :> Dir(TRUE,
               <<"secret", "cgi">> \o HookEntryNames(sh.h0)
                 \o (IF sh.index = "absent" THEN <<>> ELSE <<"index.html">>)
                 \o (IF sh.a = "absent" THEN <<>> ELSE <<"A">>)
                 \o <<"home.html">> \o DescriptorEntry(sh.d0)))
    @@ HookNodes(<<>>, sh.h0)
    @@ DescriptorNode(<<>>, sh.d0)
    @@ IndexNodes(sh.index)
    @@ ANodes(sh)
    @@ (<<"home.html">> :> Static("Home"))
    @@ (<<"secret">> :> File(FALSE, TRUE, "", Cgi201))
    @@ (<<"cgi">> :> File(TRUE, TRUE, "", sh.cgi))

BaseShape == Shape("static", "dir", HooksNone, HooksNone, None, None, None, Cgi201)

\* Trees that differ in what exists and in the permission bits
PermShapes ==
  {[BaseShape EXCEPT !.index = i, !.a = a] : i \in IndexKinds, a \in AKinds}

\* Trees that differ in the hooks of the two directories
HookShapes ==
  {[BaseShape EXCEPT !.h0 = h0, !.hA = hA] : h0 \in HookSets, hA \in HookSets}

\* Trees that differ in the descriptors
DescriptorShapes ==
  {[BaseShape EXCEPT !.d0 = d0, !.dA = dA, !.dB = dB] :
     d0 \in Descriptors, dA \in Descriptors, dB \in {None, Some(TomlEmptyRes)}}

\* Trees that differ in the program behind /cgi
CgiShapes == {[BaseShape EXCEPT !.cgi = c, !.h0 = h0] : c \in CgiPrograms, h0 \in {HooksNone, HooksLate}}

\* Trees with hooks, descriptors and a directory as index file at once
MixedShapes ==
  {Shape(i, "dir", h, h, d, None, None, CgiMany) :
     i \in {"dir", "exec"}, h \in {HooksFull, HooksDenyEcho}, d \in {Some(TomlEnv), Some(TomlDot)}}

Shapes == PermShapes \cup HookShapes \cup DescriptorShapes \cup CgiShapes \cup MixedShapes

\* The URL paths requested
Urls ==
  {<<"">>, <<"index.html">>, <<"cgi">>, <<"cgi", "x", "y">>, <<"secret">>,
   <<"missing">>, <<"A">>, <<"A", "">>, <<"A", "B", "">>, <<"A", "home.html">>,
   <<".gatekeeper1">>, <<"A%41", "home.html">>, <<"", "cgi", "x">>}

\* The request Http::handle builds for a URL path
WireRequest(url) == Request("Http", "GET", url, "Host" :> "localhost", "payload")

\* ------------------------------------------------------------------------
\* State
\* ------------------------------------------------------------------------
VARIABLES
  fs,       \* the tree under the working directory
  pending,  \* per connection: the wire requests not yet handled
  orig,     \* per connection: the request as Http::handle built it
  request,  \* per connection: the Request that exec works on (&mut Request)
  stack,    \* per connection: the activations of exec, outermost first
  result,   \* per connection: the <<request, response>> pairs answered
  trace,    \* per connection: what the current resolution did, in order
  combine,  \* a use of WWebS's `&`: the operands and the results so far
  adapter   \* a use of GResponse::from: the Response and the result, if any

vars == <<adapter, combine, fs, pending, orig, request, stack, result, trace>>

WorkDir == "/srv"

\* An activation of exec(request, segment, config):
\*   pc        where it is: "enter", "gatekeepers", "req_transformers",
\*             "target", "child", "res_transformers", "loggers", "return"
\*   path      the candidate path, config the working configuration
\*   files     the listing taken at line 208, exec the other-executable bit
\*   response  the in-progress response
\*   hooks, i  the sorted hooks of the running category and the next one
\*   proc      the process being waited for, if any
Activation(segment, config) ==
  [pc |-> "enter", segment |-> segment, config |-> config, path |-> <<>>,
   files |-> <<>>, exec |-> FALSE, response |-> DefaultResponse,
   hooks |-> <<>>, i |-> 1, proc |-> None]

Top(c) == stack[c][Len(stack[c])]

Active(c) == stack[c] # <<>>

WithTop(c, f) == [stack EXCEPT ![c] = [@ EXCEPT ![Len(@)] = f]]

Log(c, events) == [trace EXCEPT ![c] = @ \o events]

\* run_cgi up to Popen::create: what the process is started with
Invocation(req, path, config) ==
  [path |-> path,
   args |-> <<PathCollect(WorkDir, path), InsidePath(path, req.url)>>,
   env |-> Environment(req, config),
   stdin |-> req.body]

\* run_cgi from communicate_bytes on, for a started process
Outcome(proc) == CgiResponse(fs[proc.path].prog, proc.stdin, proc.env)

\* Lines 115-124: communicate_bytes and wait return for the started process
Returns(proc) == fs[proc.path].prog.exit # <<"Never">>

Spawned(stage, f, inv, req) ==
  [ev |-> "spawn", stage |-> stage, depth |-> f.segment, dir |-> f.path,
   name |-> inv.path[Len(inv.path)], inv |-> inv, req |-> req]

Exited(stage, f, path, res) ==
  [ev |-> "exit", stage |-> stage, depth |-> f.segment, dir |-> f.path,
   name |-> path[Len(path)], res |-> res]

\* Entering a hook category: its hooks, sorted, and the loop at its start
Stage(f, pc, hooks) == [f EXCEPT !.pc = pc, !.hooks = hooks, !.i = 1, !.proc = None]

\* Lines 250-259: the response transformers run when the candidate is a
\* directory
ToResTransformers(f) ==
  Stage(f, "res_transformers",
        IF IsDir(fs, f.path) THEN HooksOf(f.files, ".res_transformer") ELSE <<>>)

\* A configuration with STATUS set in its environment
WithStatus(config, status) ==
  [config EXCEPT !.env = Some(MapInsert(UnwrapOr(@, EmptyMap), "STATUS", to_string(status)))]

\* The merge of a hook's headers: an empty value removes the header
RECURSIVE MergeHeaders(_, _, _)
MergeHeaders(headers, new, keys) ==
  IF keys = {} THEN headers
  ELSE LET k == CHOOSE x \in keys : TRUE
       IN MergeHeaders(IF new[k] = "" THEN MapRemove(headers, k)
                       ELSE MapInsert(headers, k, new[k]),
                       new, keys \ {k})

\* ------------------------------------------------------------------------
\* Http::handle
\* ------------------------------------------------------------------------
\* Handle with one Request value for the whole listener: a connection that
\* arrives while another resolution is running works on that one's request
Handle_SharedRequest(c) ==
  /\ ~Active(c)
  /\ pending[c] # <<>>
  /\ pending' = [pending EXCEPT ![c] = Tail(@)]
  /\ orig' = [orig EXCEPT ![c] = Head(pending[c])]
  /\ request' = [request EXCEPT ![c] =
                   IF \E d \in Conns : Active(d)
                     THEN request[CHOOSE d \in Conns : Active(d)]
                     ELSE Head(pending[c])]
  /\ stack' = [stack EXCEPT ![c] = <<Activation(0, DefaultConfig)>>]
  /\ trace' = [trace EXCEPT ![c] = <<>>]
  /\ UNCHANGED <<adapter, combine, fs, result>>

\* The listener takes the next request of the connection and calls
\* exec(&mut request, 0, &mut WWebS::default())
Handle(c) ==
  /\ ~Active(c)
  /\ pending[c] # <<>>
  /\ pending' = [pending EXCEPT ![c] = Tail(@)]
  /\ orig' = [orig EXCEPT ![c] = Head(pending[c])]
  /\ request' = [request EXCEPT ![c] = Head(pending[c])]
  /\ stack' = [stack EXCEPT ![c] = <<Activation(0, DefaultConfig)>>]
  /\ trace' = [trace EXCEPT ![c] = <<>>]
  /\ UNCHANGED <<adapter, combine, fs, result>>

\* The response of exec goes back to the client
Respond(c) ==
  /\ Active(c)
  /\ Len(stack[c]) = 1
  /\ Top(c).pc = "return"
  /\ result' = [result EXCEPT ![c] = Append(@, <<orig[c], Top(c).response>>)]
  /\ stack' = [stack EXCEPT ![c] = <<>>]
  /\ trace' = Log(c, <<[ev |-> "respond", depth |-> 0, res |-> Top(c).response,
                         busy |-> {d \in Conns \ {c} : Active(d)}]>>)
  /\ UNCHANGED <<adapter, combine, fs, pending, orig, request>>

\* ------------------------------------------------------------------------
\* Server::exec
\* ------------------------------------------------------------------------
\* Lines 153-202: the candidate does not exist or is not other-readable
ExecNotFound(c) ==
  /\ Active(c)
  /\ Top(c).pc = "enter"
  /\ LET f == Top(c)
         path == CandidatePath(request[c].url, f.segment)
     IN /\ ~(Exists(fs, path) /\ Allowed(fs, path))
        /\ stack' = WithTop(c, [f EXCEPT !.pc = "return", !.path = path,
                                         !.response = NotFound])
        /\ trace' = Log(c, <<[ev |-> "notfound", depth |-> f.segment, dir |-> path,
                              res |-> NotFound]>>)
  /\ UNCHANGED <<adapter, combine, fs, pending, orig, request, result>>

\* Lines 153-222: the candidate is visible; for a directory the descriptor
\* is applied and the gatekeepers are listed
ExecOpen(c) ==
  /\ Active(c)
  /\ Top(c).pc = "enter"
  /\ LET f == Top(c)
         path == CandidatePath(request[c].url, f.segment)
         files == get_files_at(fs, path)
         g == [f EXCEPT !.path = path, !.files = files,
                        !.exec = Executable(fs, path),
                        !.response = DefaultResponse]
     IN /\ Exists(fs, path)
        /\ Allowed(fs, path)
        /\ stack' = WithTop(c,
             IF IsDir(fs, path)
               THEN Stage([g EXCEPT !.config = extend_config(fs, f.config, path)],
                          "gatekeepers", HooksOf(files, ".gatekeeper"))
               ELSE [g EXCEPT !.pc = "target"])
        /\ trace' = Log(c, <<[ev |-> "open", depth |-> f.segment, dir |-> path]>>)
  /\ UNCHANGED <<adapter, combine, fs, pending, orig, request, result>>

\* GatekeeperResult with every result, ok or not, taken as the response
GatekeeperResult_Overwrite(response, res) == res

\* GatekeeperResult with the result of a gatekeeper dropped
GatekeeperResult_Ignore(response, res) == response

\* GatekeeperResult with the first failure kept
GatekeeperResult_First(response, res) ==
  IF is_ok(res) \/ ~is_ok(response) THEN response ELSE res

\* eval_gatekeepers, lines 381-383: a result that is not ok becomes the
\* response
GatekeeperResult(response, res) == IF is_ok(res) THEN response ELSE res

\* eval_gatekeepers, lines 378-380: the next gatekeeper is started with a
\* clone of the request; when it cannot be started its result is the 500
\* of run_cgi
GatekeeperSpawn(c) ==
  /\ Active(c)
  /\ Top(c).pc = "gatekeepers"
  /\ Top(c).proc = None
  /\ Top(c).i <= Len(Top(c).hooks)
  /\ LET f == Top(c)
         inv == Invocation(request[c], Append(f.path, f.hooks[f.i]), f.config)
         res == internal_server_error
     IN IF fs[inv.path].prog.create
          THEN /\ stack' = WithTop(c, [f EXCEPT !.proc = Some(inv)])
               /\ trace' = Log(c, <<Spawned("gatekeeper", f, inv, request[c])>>)
          ELSE /\ stack' = WithTop(c, [f EXCEPT !.i = @ + 1,
                                         !.response = GatekeeperResult(@, res)])
               /\ trace' = Log(c, <<Spawned("gatekeeper", f, inv, request[c]),
                                    Exited("gatekeeper", f, inv.path, res)>>)
  /\ UNCHANGED <<adapter, combine, fs, pending, orig, request, result>>

\* GatekeeperExit with the gatekeeper run on the request itself and its
\* result merged into it
GatekeeperExit_Mutates(c) ==
  /\ Active(c)
  /\ Top(c).pc = "gatekeepers"
  /\ Top(c).proc # None
  /\ Returns(Top(c).proc[1])
  /\ LET f == Top(c)
         res == Outcome(f.proc[1])
     IN /\ stack' = WithTop(c, [f EXCEPT !.proc = None, !.i = @ + 1,
                                  !.response = GatekeeperResult(@, res)])
        /\ request' = [request EXCEPT ![c] =
                         IF is_ok(res) THEN [@ EXCEPT !.body = res.body] ELSE @]
        /\ trace' = Log(c, <<Exited("gatekeeper", f, f.proc[1].path, res)>>)
  /\ UNCHANGED <<adapter, combine, fs, pending, orig, result>>

\* eval_gatekeepers, lines 380-383: a gatekeeper has exited
GatekeeperExit(c) ==
  /\ Active(c)
  /\ Top(c).pc = "gatekeepers"
  /\ Top(c).proc # None
  /\ Returns(Top(c).proc[1])
  /\ LET f == Top(c)
         res == Outcome(f.proc[1])
     IN /\ stack' = WithTop(c, [f EXCEPT !.proc = None, !.i = @ + 1,
                                  !.response = GatekeeperResult(@, res)])
        /\ trace' = Log(c, <<Exited("gatekeeper", f, f.proc[1].path, res)>>)
  /\ UNCHANGED <<adapter, combine, fs, pending, orig, request, result>>

\* Lines 223-226: after the gatekeepers, the request transformers are
\* listed if the response is ok
GatekeepersDone(c) ==
  /\ Active(c)
  /\ Top(c).pc = "gatekeepers"
  /\ Top(c).proc = None
  /\ Top(c).i > Len(Top(c).hooks)
  /\ LET f == Top(c)
     IN stack' = WithTop(c, Stage(f, "req_transformers",
                   IF is_ok(f.response) THEN HooksOf(f.files, ".req_transformer")
                   ELSE <<>>))
  /\ UNCHANGED <<adapter, combine, fs, pending, orig, request, result, trace>>

\* ReqTransformed with the body of the request kept
ReqTransformed_KeepBody(req, res) ==
  IF is_ok(res)
    THEN [req EXCEPT !.headers = MergeHeaders(@, res.headers, DOMAIN res.headers)]
    ELSE req

\* eval_req_transformers, lines 405-414: an ok result is merged into the
\* request
ReqTransformed(req, res) ==
  IF is_ok(res)
    THEN [req EXCEPT !.headers = MergeHeaders(@, res.headers, DOMAIN res.headers),
                     !.body = res.body]
    ELSE req

\* eval_req_transformers, lines 402-404: the next transformer is started
\* with the request itself
ReqTransformerSpawn(c) ==
  /\ Active(c)
  /\ Top(c).pc = "req_transformers"
  /\ Top(c).proc = None
  /\ Top(c).i <= Len(Top(c).hooks)
  /\ LET f == Top(c)
         inv == Invocation(request[c], Append(f.path, f.hooks[f.i]), f.config)
         res == internal_server_error
     IN IF fs[inv.path].prog.create
          THEN /\ stack' = WithTop(c, [f EXCEPT !.proc = Some(inv)])
               /\ trace' = Log(c, <<Spawned("req_transformer", f, inv, request[c])>>)
               /\ UNCHANGED request
          ELSE /\ stack' = WithTop(c, [f EXCEPT !.i = @ + 1])
               /\ request' = [request EXCEPT ![c] = ReqTransformed(@, res)]
               /\ trace' = Log(c, <<Spawned("req_transformer", f, inv, request[c]),
                                    Exited("req_transformer", f, inv.path, res)>>)
  /\ UNCHANGED <<adapter, combine, fs, pending, orig, result>>

ReqTransformerExit(c) ==
  /\ Active(c)
  /\ Top(c).pc = "req_transformers"
  /\ Top(c).proc # None
  /\ Returns(Top(c).proc[1])
  /\ LET f == Top(c)
         res == Outcome(f.proc[1])
     IN /\ stack' = WithTop(c, [f EXCEPT !.proc = None, !.i = @ + 1])
        /\ request' = [request EXCEPT ![c] = ReqTransformed(@, res)]
        /\ trace' = Log(c, <<Exited("req_transformer", f, f.proc[1].path, res)>>)
  /\ UNCHANGED <<adapter, combine, fs, pending, orig, result>>

\* Lines 232-236: the index name of the working configuration
IndexName(config) ==
  IF IsSome(config.resolution) /\ IsSome(config.resolution[1].index)
    THEN config.resolution[1].index[1]
    ELSE "index.html"

\* AtEnd with the segment count compared to segment + 1
AtEnd_OffByOne(f, req) ==
  is_ok(f.response) /\ Len(req.url) = f.segment + 1 /\ IsDir(fs, f.path)

\* Lines 228-238: whether the request names this directory exactly
AtEnd(f, req) == is_ok(f.response) /\ Len(req.url) = f.segment /\ IsDir(fs, f.path)

\* Lines 227-239: after the request transformers, the index name is pushed
\* onto the URL if the request ends at this directory
RewriteIndex(c) ==
  /\ Active(c)
  /\ Top(c).pc = "req_transformers"
  /\ Top(c).proc = None
  /\ Top(c).i > Len(Top(c).hooks)
  /\ LET f == Top(c)
         index == IndexName(f.config)
     IN /\ stack' = WithTop(c, [f EXCEPT !.pc = "target"])
        /\ IF AtEnd(f, request[c])
             THEN /\ request' = [request EXCEPT ![c].url = UrlPush(@, index)]
                  /\ trace' = Log(c, <<[ev |-> "index", depth |-> f.segment,
                                        dir |-> f.path, name |-> index,
                                        before |-> request[c].url,
                                        after |-> UrlPush(request[c].url, index)]>>)
             ELSE UNCHANGED <<request, trace>>
  /\ UNCHANGED <<adapter, combine, fs, pending, orig, result>>

\* Line 241: the response is not ok, the target is not evaluated
SkipTarget(c) ==
  /\ Active(c)
  /\ Top(c).pc = "target"
  /\ ~is_ok(Top(c).response)
  /\ stack' = WithTop(c, ToResTransformers(Top(c)))
  /\ UNCHANGED <<adapter, combine, fs, pending, orig, request, result, trace>>

\* Lines 243-244 and run_file, lines 343-350: a file that is not
\* other-executable is read
ReadStatic(c) ==
  /\ Active(c)
  /\ Top(c).pc = "target"
  /\ is_ok(Top(c).response)
  /\ IsFile(fs, Top(c).path)
  /\ ~Top(c).exec
  /\ LET f == Top(c)
         res == [status |-> 200, headers |-> EmptyMap, body |-> fs[f.path].data]
     IN /\ stack' = WithTop(c, ToResTransformers([f EXCEPT !.response = res]))
        /\ trace' = Log(c, <<[ev |-> "read", depth |-> f.segment, dir |-> f.path,
                              res |-> res]>>)
  /\ UNCHANGED <<adapter, combine, fs, pending, orig, request, result>>

\* Lines 243-244 and run_file, line 358: an other-executable file is started
TargetSpawn(c) ==
  /\ Active(c)
  /\ Top(c).pc = "target"
  /\ Top(c).proc = None
  /\ is_ok(Top(c).response)
  /\ IsFile(fs, Top(c).path)
  /\ Top(c).exec
  /\ LET f == Top(c)
         inv == Invocation(request[c], f.path, f.config)
         res == internal_server_error
     IN IF fs[inv.path].prog.create
          THEN /\ stack' = WithTop(c, [f EXCEPT !.proc = Some(inv)])
               /\ trace' = Log(c, <<Spawned("target", f, inv, request[c])>>)
          ELSE /\ stack' = WithTop(c, ToResTransformers([f EXCEPT !.response = res]))
               /\ trace' = Log(c, <<Spawned("target", f, inv, request[c]),
                                    Exited("target", f, inv.path, res)>>)
  /\ UNCHANGED <<adapter, combine, fs, pending, orig, request, result>>

\* Line 244: the target has exited, its response is the response
TargetExit(c) ==
  /\ Active(c)
  /\ Top(c).pc = "target"
  /\ Top(c).proc # None
  /\ Returns(Top(c).proc[1])
  /\ LET f == Top(c)
         res == Outcome(f.proc[1])
     IN /\ stack' = WithTop(c, ToResTransformers([f EXCEPT !.response = res]))
        /\ trace' = Log(c, <<Exited("target", f, f.proc[1].path, res)>>)
  /\ UNCHANGED <<adapter, combine, fs, pending, orig, request, result>>

\* Lines 245-248: the candidate is not a file, exec calls itself with
\* segment + 1 and the working configuration
Recurse(c) ==
  /\ Active(c)
  /\ Top(c).pc = "target"
  /\ is_ok(Top(c).response)
  /\ ~IsFile(fs, Top(c).path)
  /\ Top(c).segment < MaxDepth
  /\ stack' = [stack EXCEPT ![c] =
                 Append([@ EXCEPT ![Len(@)].pc = "child"],
                        Activation(Top(c).segment + 1, Top(c).config))]
  /\ trace' = Log(c, <<[ev |-> "call", depth |-> Top(c).segment + 1,
                        dir |-> Top(c).path]>>)
  /\ UNCHANGED <<adapter, combine, fs, pending, orig, request, result>>

\* ExecReturn with the caller's own response kept
ExecReturn_KeepsOwn(c) ==
  /\ Active(c)
  /\ Len(stack[c]) > 1
  /\ Top(c).pc = "return"
  /\ LET n == Len(stack[c])
         parent == stack[c][n - 1]
     IN stack' = [stack EXCEPT ![c] =
                    Append(SubSeq(@, 1, n - 2), ToResTransformers(parent))]
  /\ trace' = Log(c, <<[ev |-> "return", depth |-> Top(c).segment,
                        dir |-> Top(c).path, res |-> Top(c).response]>>)
  /\ UNCHANGED <<adapter, combine, fs, pending, orig, request, result>>

\* Line 247: the inner exec returns, its response is the response
ExecReturn(c) ==
  /\ Active(c)
  /\ Len(stack[c]) > 1
  /\ Top(c).pc = "return"
  /\ LET n == Len(stack[c])
         parent == stack[c][n - 1]
     IN stack' = [stack EXCEPT ![c] =
                    Append(SubSeq(@, 1, n - 2),
                           ToResTransformers([parent EXCEPT !.response = Top(c).response]))]
  /\ trace' = Log(c, <<[ev |-> "return", depth |-> Top(c).segment,
                        dir |-> Top(c).path, res |-> Top(c).response]>>)
  /\ UNCHANGED <<adapter, combine, fs, pending, orig, request, result>>

\* eval_res_transformers, lines 313-319: the request a transformer gets
ResRequest(req, response) ==
  Request(req.proto, "GET", req.url, response.headers, response.body)

\* ResTransformed with the status of the response kept
ResTransformed_KeepStatus(response, res) ==
  [status |-> response.status,
   headers |-> MergeHeaders(response.headers, res.headers, DOMAIN res.headers),
   body |-> res.body]

\* eval_res_transformers, lines 321-329: the transformer's result applied
ResTransformed(response, res) ==
  [status |-> res.status,
   headers |-> MergeHeaders(response.headers, res.headers, DOMAIN res.headers),
   body |-> res.body]

\* eval_res_transformers, lines 308-320: the next transformer is started
\* with STATUS and the response as its request
ResTransformerSpawn(c) ==
  /\ Active(c)
  /\ Top(c).pc = "res_transformers"
  /\ Top(c).proc = None
  /\ Top(c).i <= Len(Top(c).hooks)
  /\ LET f == Top(c)
         req == ResRequest(request[c], f.response)
         inv == Invocation(req, Append(f.path, f.hooks[f.i]),
                           WithStatus(f.config, f.response.status))
         res == internal_server_error
     IN IF fs[inv.path].prog.create
          THEN /\ stack' = WithTop(c, [f EXCEPT !.proc = Some(inv)])
               /\ trace' = Log(c, <<Spawned("res_transformer", f, inv, req)>>)
          ELSE /\ stack' = WithTop(c, [f EXCEPT !.i = @ + 1,
                                         !.response = ResTransformed(@, res)])
               /\ trace' = Log(c, <<Spawned("res_transformer", f, inv, req),
                                    Exited("res_transformer", f, inv.path, res)>>)
  /\ UNCHANGED <<adapter, combine, fs, pending, orig, request, result>>

ResTransformerExit(c) ==
  /\ Active(c)
  /\ Top(c).pc = "res_transformers"
  /\ Top(c).proc # None
  /\ Returns(Top(c).proc[1])
  /\ LET f == Top(c)
         res == Outcome(f.proc[1])
     IN /\ stack' = WithTop(c, [f EXCEPT !.proc = None, !.i = @ + 1,
                                  !.response = ResTransformed(@, res)])
        /\ trace' = Log(c, <<Exited("res_transformer", f, f.proc[1].path, res)>>)
  /\ UNCHANGED <<adapter, combine, fs, pending, orig, request, result>>

\* NormalizeStatus with the status left as it is
NormalizeStatus_Identity(response) == response

\* Lines 260-262
NormalizeStatus(response) ==
  IF response.status = 0 THEN [response EXCEPT !.status = 200] ELSE response

\* Lines 260-264: after the response transformers the status is normalized
\* and the loggers are listed
Normalize(c) ==
  /\ Active(c)
  /\ Top(c).pc = "res_transformers"
  /\ Top(c).proc = None
  /\ Top(c).i > Len(Top(c).hooks)
  /\ LET f == Top(c)
     IN stack' = WithTop(c, Stage([f EXCEPT !.response = NormalizeStatus(@)],
                                  "loggers", HooksOf(f.files, ".logger")))
  /\ UNCHANGED <<adapter, combine, fs, pending, orig, request, result, trace>>

\* run_loggers, lines 281-288: the next logger is started with a clone of
\* the request and STATUS; its result is dropped
LoggerSpawn(c) ==
  /\ Active(c)
  /\ Top(c).pc = "loggers"
  /\ Top(c).proc = None
  /\ Top(c).i <= Len(Top(c).hooks)
  /\ LET f == Top(c)
         inv == Invocation(request[c], Append(f.path, f.hooks[f.i]),
                           WithStatus(f.config, f.response.status))
     IN IF fs[inv.path].prog.create
          THEN /\ stack' = WithTop(c, [f EXCEPT !.proc = Some(inv)])
               /\ trace' = Log(c, <<Spawned("logger", f, inv, request[c])>>)
          ELSE /\ stack' = WithTop(c, [f EXCEPT !.i = @ + 1])
               /\ trace' = Log(c, <<Spawned("logger", f, inv, request[c]),
                                    Exited("logger", f, inv.path, internal_server_error)>>)
  /\ UNCHANGED <<adapter, combine, fs, pending, orig, request, result>>

\* LoggerExit with the logger's result taken as the response
LoggerExit_Overwrite(c) ==
  /\ Active(c)
  /\ Top(c).pc = "loggers"
  /\ Top(c).proc # None
  /\ Returns(Top(c).proc[1])
  /\ LET f == Top(c)
     IN /\ stack' = WithTop(c, [f EXCEPT !.proc = None, !.i = @ + 1,
                                  !.response = Outcome(f.proc[1])])
        /\ trace' = Log(c, <<Exited("logger", f, f.proc[1].path, Outcome(f.proc[1]))>>)
  /\ UNCHANGED <<adapter, combine, fs, pending, orig, request, result>>

\* run_loggers, line 288: a logger has exited, its result is dropped
LoggerExit(c) ==
  /\ Active(c)
  /\ Top(c).pc = "loggers"
  /\ Top(c).proc # None
  /\ Returns(Top(c).proc[1])
  /\ LET f == Top(c)
     IN /\ stack' = WithTop(c, [f EXCEPT !.proc = None, !.i = @ + 1])
        /\ trace' = Log(c, <<Exited("logger", f, f.proc[1].path, Outcome(f.proc[1]))>>)
  /\ UNCHANGED <<adapter, combine, fs, pending, orig, request, result>>

\* Line 265: exec returns the response
LoggersDone(c) ==
  /\ Active(c)
  /\ Top(c).pc = "loggers"
  /\ Top(c).proc = None
  /\ Top(c).i > Len(Top(c).hooks)
  /\ stack' = WithTop(c, [Top(c) EXCEPT !.pc = "return"])
  /\ UNCHANGED <<adapter, combine, fs, pending, orig, request, result, trace>>

\* ------------------------------------------------------------------------
\* Specifications
\* ------------------------------------------------------------------------
\* Request::default()
DefaultRequest == Request("Http", "", <<"">>, EmptyMap, "")

\* The operands a, b, c of a combination and what was computed of
\* a & b, b & c, (a & b) & c and a & (b & c)
Operands(a, b, c) ==
  [a |-> a, b |-> b, c |-> c, ab |-> None, bc |-> None, left |-> None, right |-> None]

\* exec never combines configurations (extend_config replaces)
NoOperands == Operands(DefaultConfig, DefaultConfig, DefaultConfig)

\* A Response handed to the Gemini adapter and not converted yet
Converting(res) == [res |-> res, out |-> None]

\* No conversion: the Http listener answers with the Response itself
NoConversion == Converting(DefaultResponse)

Idle ==
  /\ orig = [c \in Conns |-> DefaultRequest]
  /\ request = [c \in Conns |-> DefaultRequest]
  /\ stack = [c \in Conns |-> <<>>]
  /\ result = [c \in Conns |-> <<>>]
  /\ trace = [c \in Conns |-> <<>>]

\* One request on the first connection, for every tree and URL
Init ==
  /\ adapter = NoConversion
  /\ combine = NoOperands
  /\ \E sh \in Shapes : fs = Tree(sh)
  /\ \E u \in Urls : pending = [c \in Conns |-> IF c = 1 THEN <<WireRequest(u)>> ELSE <<>>]
  /\ Idle

Next ==
  \E c \in Conns :
    \/ Handle(c)
    \/ Respond(c)
    \/ ExecNotFound(c)
    \/ ExecOpen(c)
    \/ GatekeeperSpawn(c)
    \/ GatekeeperExit(c)
    \/ GatekeepersDone(c)
    \/ ReqTransformerSpawn(c)
    \/ ReqTransformerExit(c)
    \/ RewriteIndex(c)
    \/ SkipTarget(c)
    \/ ReadStatic(c)
    \/ TargetSpawn(c)
    \/ TargetExit(c)
    \/ Recurse(c)
    \/ ExecReturn(c)
    \/ ResTransformerSpawn(c)
    \/ ResTransformerExit(c)
    \/ Normalize(c)
    \/ LoggerSpawn(c)
    \/ LoggerExit(c)
    \/ LoggersDone(c)

Spec == Init /\ [][Next]_vars

\* A tree with every kind of hook in the working directory and a denying
\* gatekeeper in A
PairShape ==
  Shape("static", "dir", HooksWrap, HooksDeny, Some(TomlEnv), None, None, Cgi201)

PairUrls == {<<"">>, <<"cgi">>, <<"missing">>, <<"A">>}

\* Two connections: the first sends the same request twice, one after the
\* other; the second sends one request, handled by a task of its own
InitPair ==
  /\ adapter = NoConversion
  /\ combine = NoOperands
  /\ fs = Tree(PairShape)
  /\ \E u1, u2 \in PairUrls :
       pending = [c \in Conns |-> IF c = 1 THEN <<WireRequest(u1), WireRequest(u1)>>
                                  ELSE <<WireRequest(u2)>>]
  /\ Idle

SpecPair == InitPair /\ [][Next]_vars

\* ------------------------------------------------------------------------
\* One resolution, run to its end
\* ------------------------------------------------------------------------
\* Trees whose programs all exit: every kind of hook, an index entry that
\* is a directory, an index name that is a dot segment or empty
ResolveShapes ==
  {PairShape,
   [BaseShape EXCEPT !.index = "dir"],
   [BaseShape EXCEPT !.d0 = Some(TomlDot)],
   [BaseShape EXCEPT !.dA = Some(TomlBlank)]}

InitResolve ==
  /\ adapter = NoConversion
  /\ combine = NoOperands
  /\ \E sh \in ResolveShapes : fs = Tree(sh)
  /\ \E u \in PairUrls : pending = [c \in Conns |-> IF c = 1 THEN <<WireRequest(u)>> ELSE <<>>]
  /\ Idle

\* The thread that runs exec keeps running: a step that can be taken is
\* taken
SpecResolve == InitResolve /\ [][Next]_vars /\ WF_vars(Next)

\* ------------------------------------------------------------------------
\* Uses of the configuration's `&`
\* ------------------------------------------------------------------------
Indexes == {None, Some("index.html"), Some("home.html")}

Resolutions == {None} \cup {Some(ResolutionInfo(i)) : i \in Indexes}

Envs ==
  {None, Some(EmptyMap), Some("K" :> "1"), Some(("K" :> "2") @@ ("L" :> "3")),
   Some("M" :> "4")}

Configs == {WWebS(r, e) : r \in Resolutions, e \in Envs}

InitCombine ==
  /\ adapter = NoConversion
  /\ \E a, b, c \in Configs : combine = Operands(a, b, c)
  /\ fs = Tree(BaseShape)
  /\ pending = [c \in Conns |-> <<>>]
  /\ Idle

\* a & b
CombineAB ==
  /\ combine.ab = None
  /\ combine' = [combine EXCEPT !.ab = Some(BitAnd(combine.a, combine.b))]
  /\ UNCHANGED <<adapter, fs, pending, orig, request, stack, result, trace>>

\* b & c
CombineBC ==
  /\ combine.bc = None
  /\ combine' = [combine EXCEPT !.bc = Some(BitAnd(combine.b, combine.c))]
  /\ UNCHANGED <<adapter, fs, pending, orig, request, stack, result, trace>>

\* (a & b) & c
CombineLeft ==
  /\ combine.ab # None
  /\ combine.left = None
  /\ combine' = [combine EXCEPT !.left = Some(BitAnd(combine.ab[1], combine.c))]
  /\ UNCHANGED <<adapter, fs, pending, orig, request, stack, result, trace>>

\* a & (b & c)
CombineRight ==
  /\ combine.bc # None
  /\ combine.right = None
  /\ combine' = [combine EXCEPT !.right = Some(BitAnd(combine.a, combine.bc[1]))]
  /\ UNCHANGED <<adapter, fs, pending, orig, request, stack, result, trace>>

NextCombine == CombineAB \/ CombineBC \/ CombineLeft \/ CombineRight

SpecCombine == InitCombine /\ [][NextCombine]_vars

\* ------------------------------------------------------------------------
\* Uses of the Gemini adapter
\* ------------------------------------------------------------------------
\* The largest status converted, besides the largest u16
MaxStatus == 610

AdapterStatuses == 0 .. MaxStatus \cup {U16Max}

AdapterHeaders ==
  {EmptyMap,
   "GEMINI_META" :> "text/gemini",
   "Content-Type" :> "text/html",
   ("GEMINI_META" :> "text/gemini") @@ ("Content-Type" :> "text/html"),
   "Location" :> "/moved",
   ("Location" :> "/moved") @@ ("Content-Type" :> "text/html")}

AdapterBodies == {"", "gone", BinaryBody}

InitGemini ==
  /\ \E n \in AdapterStatuses, h \in AdapterHeaders, b \in AdapterBodies :
       adapter = Converting([status |-> n, headers |-> h, body |-> b])
  /\ combine = NoOperands
  /\ fs = Tree(BaseShape)
  /\ pending = [c \in Conns |-> <<>>]
  /\ Idle

\* Line 95 of gemini: GResponse::from(res)
GeminiFrom ==
  /\ adapter.out = None
  /\ adapter' = [adapter EXCEPT !.out = Some(GResponseFrom(adapter.res))]
  /\ UNCHANGED <<combine, fs, pending, orig, request, stack, result, trace>>

NextGemini == GeminiFrom

SpecGemini == InitGemini /\ [][NextGemini]_vars

\* ------------------------------------------------------------------------
\* The listeners' tasks on the runtime of #[tokio::main]
\* ------------------------------------------------------------------------
\* The worker threads of the runtime (one per core)
Workers == 1

\* exec is called inside the connection's task with no await until it
\* returns: a resolution keeps its worker thread from the call to the
\* response
OnWorker == {c \in Conns : Active(c)}

\* A task is polled, and reaches the call of exec, when a worker is free
HandleOnWorker(c) ==
  /\ Cardinality(OnWorker) < Workers
  /\ Handle(c)

\* The tree of PairShape with a program behind /cgi that exits or hangs
InitWorkers ==
  /\ adapter = NoConversion
  /\ combine = NoOperands
  /\ \E prog \in {Cgi201, CgiHangs} : fs = Tree([PairShape EXCEPT !.cgi = prog])
  /\ \E u1, u2 \in PairUrls :
       pending = [c \in Conns |-> <<WireRequest(IF c = 1 THEN u1 ELSE u2)>>]
  /\ Idle

StepWorkers(c) ==
  \/ HandleOnWorker(c)
  \/ Respond(c)
  \/ ExecNotFound(c)
  \/ ExecOpen(c)
  \/ GatekeeperSpawn(c)
  \/ GatekeeperExit(c)
  \/ GatekeepersDone(c)
  \/ ReqTransformerSpawn(c)
  \/ ReqTransformerExit(c)
  \/ RewriteIndex(c)
  \/ SkipTarget(c)
  \/ ReadStatic(c)
  \/ TargetSpawn(c)
  \/ TargetExit(c)
  \/ Recurse(c)
  \/ ExecReturn(c)
  \/ ResTransformerSpawn(c)
  \/ ResTransformerExit(c)
  \/ Normalize(c)
  \/ LoggerSpawn(c)
  \/ LoggerExit(c)
  \/ LoggersDone(c)

NextWorkers == \E c \in Conns : StepWorkers(c)

\* A thread that can run does run, and a free worker polls a task that is
\* ready
SpecWorkers ==
  /\ InitWorkers
  /\ [][NextWorkers]_vars
  /\ \A c \in Conns : WF_vars(StepWorkers(c))

\* ------------------------------------------------------------------------
\* Properties
\* ------------------------------------------------------------------------
Events(c) == DOMAIN trace[c]

Frames(c) == DOMAIN stack[c]

\* The connection has been answered and its trace is that of the answer
Answered(c) == ~Active(c) /\ result[c] # <<>>

Answer(c) == result[c][Len(result[c])][2]

\* The entries of a directory whose name starts with a prefix
NamesWith(dir, prefix) ==
  {fs[dir].entries[k] : k \in {j \in DOMAIN fs[dir].entries :
                                 StartsWith(fs[dir].entries[j], prefix)}}

IsSpawn(e, stage) == e.ev = "spawn" /\ e.stage = stage

IsExit(e, stage) == e.ev = "exit" /\ e.stage = stage

\* C1: an activation of exec whose candidate path does not exist or lacks
\* the other-readable bit returns the bare 404 response, the same one in
\* both cases and whatever the other-executable bit is.
C1_HiddenIsNotFound ==
  \A c \in Conns : \A k \in Frames(c) :
    LET f == stack[c][k]
    IN (f.pc # "enter" /\ ~(f.path \in DOMAIN fs /\ fs[f.path].r))
         => (f.pc = "return" /\ f.response = [status |-> 404, headers |-> <<>>, body |-> ""])

\* An executable entry that exists but is not other-readable was requested
\* and exec has returned for it.
C1_Witness ==
  \E c \in Conns : \E k \in Frames(c) :
    LET f == stack[c][k]
    IN /\ f.pc = "return"
       /\ f.path \in DOMAIN fs
       /\ ~fs[f.path].r
       /\ fs[f.path].x
       /\ f.response.status = 404

\* What a failed gatekeeper at depth d rules out afterwards: a request
\* transformer, an index rewrite, a deeper activation, reading or running
\* the target.
AfterDenial(e, d) ==
  /\ e.depth >= d
  /\ \/ e.ev = "spawn" /\ e.stage \in {"req_transformer", "target"}
     \/ e.ev \in {"index", "call", "open", "notfound", "read"}

\* C2: once a gatekeeper of a directory has returned a status that is not
\* ok, that resolution runs no request transformer of the directory, pushes
\* no index segment there, makes no deeper call and neither reads nor runs
\* a target.
C2_DenialStopsDescent ==
  \A c \in Conns : \A i, j \in Events(c) :
    (i < j /\ IsExit(trace[c][i], "gatekeeper") /\ ~is_ok(trace[c][i].res))
      => ~AfterDenial(trace[c][j], trace[c][i].depth)

\* A request was answered after a gatekeeper failed in a directory that
\* also holds a request transformer.
C2_Witness ==
  \E c \in Conns : \E i \in Events(c) :
    /\ Answered(c)
    /\ IsExit(trace[c][i], "gatekeeper")
    /\ ~is_ok(trace[c][i].res)
    /\ NamesWith(trace[c][i].dir, ".req_transformer") # {}

\* C3 as stated: a gatekeeper on the resolution path that fails with 403
\* makes the answer's status 403, whatever else its directory and the
\* directories above hold.
C3_DenialIsFinal ==
  \A c \in Conns : \A i \in Events(c) :
    (Answered(c) /\ IsExit(trace[c][i], "gatekeeper") /\ trace[c][i].res.status = 403)
      => Answer(c).status = 403

\* C3, amended: a gatekeeper that fails with 403 makes the answer's status
\* 403 when no gatekeeper after it in its directory fails with another
\* status and no response transformer runs afterwards (in its directory or
\* in one above); loggers do not matter.
C3_DenialIsFinalUnlessRewritten ==
  \A c \in Conns : \A i \in Events(c) :
    (/\ Answered(c)
     /\ IsExit(trace[c][i], "gatekeeper")
     /\ trace[c][i].res.status = 403
     /\ \A j \in Events(c) :
          j > i => /\ ~(IsExit(trace[c][j], "gatekeeper") /\ ~is_ok(trace[c][j].res)
                        /\ trace[c][j].res.status # 403)
                   /\ ~IsSpawn(trace[c][j], "res_transformer"))
      => Answer(c).status = 403

\* A gatekeeper below the working directory failed with 403, loggers ran
\* after it, and the request was answered with 403.
C3_Witness ==
  \E c \in Conns : \E i, j \in Events(c) :
    /\ Answered(c)
    /\ IsExit(trace[c][i], "gatekeeper")
    /\ trace[c][i].res.status = 403
    /\ trace[c][i].depth > 0
    /\ j > i
    /\ IsExit(trace[c][j], "logger")
    /\ Answer(c).status = 403

\* The exits of the gatekeepers of the activation at depth d
GateExits(c, d) ==
  {k \in Events(c) : IsExit(trace[c][k], "gatekeeper") /\ trace[c][k].depth = d}

\* The gatekeeper stage of the activation on top is over
GatesOver(c) ==
  /\ Active(c)
  /\ Top(c).pc = "gatekeepers"
  /\ Top(c).proc = None
  /\ Top(c).i > Len(Top(c).hooks)

\* C4: at the end of the gatekeeper stage every gatekeeper of the directory
\* has run, and the in-progress response is the result of the failing
\* gatekeeper with the greatest filename, or still the unset response when
\* none failed.
C4_LastFailingGatekeeperWins ==
  \A c \in Conns :
    GatesOver(c) =>
      LET f == Top(c)
          exits == GateExits(c, f.segment)
          failing == {k \in exits : ~is_ok(trace[c][k].res)}
      IN /\ {trace[c][k].name : k \in exits} = NamesWith(f.path, ".gatekeeper")
         /\ failing = {} => f.response = [status |-> 0, headers |-> <<>>, body |-> ""]
         /\ \A k \in failing :
              (\A j \in failing : j = k \/ StrLess(trace[c][j].name, trace[c][k].name))
                => f.response = trace[c][k].res

\* Two gatekeepers of one directory failed, with 403 and then with 401, and
\* the stage ended with 401 as the response.
C4_Witness ==
  \E c \in Conns :
    /\ GatesOver(c)
    /\ Top(c).response.status = 401
    /\ \E k \in GateExits(c, Top(c).segment) : trace[c][k].res.status = 403

\* The index rewrites of a resolution
IndexEvents(c) == {k \in Events(c) : trace[c][k].ev = "index"}

\* A name that Url::path_segments_mut().push() adds as a segment of its own
OrdinaryName(name) == name \notin {"", ".", ".."}

DescriptorAt(dir) ==
  LET p == dir \o <<DescriptorName>>
  IN IF p \in DOMAIN fs /\ fs[p].kind = "file" THEN from_str(fs[p].data) ELSE <<>>

\* The content of the descriptor nearest to a path on the way down from the
\* working directory, the configuration Http::handle passes when none is
\* there
NearestConfig(path) ==
  LET with == {n \in 0..Len(path) : DescriptorAt(SubSeq(path, 1, n)) # <<>>}
  IN IF with = {} THEN [resolution |-> <<>>, env |-> <<>>]
     ELSE DescriptorAt(SubSeq(path, 1, CHOOSE n \in with : \A m \in with : m <= n))[1]

\* The index name a configuration gives
IndexOf(config) ==
  IF config.resolution # <<>> /\ config.resolution[1].index # <<>>
    THEN config.resolution[1].index[1] ELSE "index.html"

\* C6: the working configuration of an activation for a visible directory
\* is the content, taken whole, of the nearest parseable descriptor from the
\* working directory down to it, or the configuration passed in when there
\* is none; so is the index name pushed there.  A directory without a
\* parseable descriptor pushes the index name its parent would, and one
\* whose descriptor names no index pushes "index.html".
C6_NearestDescriptorReplaces ==
  \A c \in Conns :
    /\ \A n \in Frames(c) :
         LET f == stack[c][n]
         IN (f.pc # "enter" /\ IsDir(fs, f.path) /\ fs[f.path].r)
              => f.config = NearestConfig(f.path)
    /\ \A k \in IndexEvents(c) :
         LET e == trace[c][k]
             parent == SubSeq(e.dir, 1, Len(e.dir) - 1)
         IN /\ e.name = IndexOf(NearestConfig(e.dir))
            /\ (e.dir # <<>> /\ DescriptorAt(e.dir) = <<>>)
                 => e.name = IndexOf(NearestConfig(parent))
            /\ (DescriptorAt(e.dir) # <<>> /\ DescriptorAt(e.dir)[1].resolution = <<>>)
                 => e.name = "index.html"
            /\ (DescriptorAt(e.dir) # <<>> /\ DescriptorAt(e.dir)[1].resolution # <<>>
                  /\ DescriptorAt(e.dir)[1].resolution[1].index = <<>>)
                 => e.name = "index.html"

\* A/B has no descriptor, A's descriptor names home.html, and a request
\* that ends at A/B was answered with A/B/home.html.
C6_Witness ==
  \E c \in Conns : \E k \in IndexEvents(c) :
    /\ Answered(c)
    /\ trace[c][k].dir = <<"A", "B">>
    /\ trace[c][k].name = "home.html"
    /\ <<"A", "B", DescriptorName>> \notin DOMAIN fs
    /\ <<"A", DescriptorName>> \in DOMAIN fs
    /\ fs[<<"A", DescriptorName>>].data = TomlHome
    /\ Answer(c).body = "BHome"

\* The exits of processes, each right after the event of its start
ProcessExits(c) ==
  {k \in Events(c) : k > 1 /\ trace[c][k].ev = "exit" /\ trace[c][k - 1].ev = "spawn"}

\* The program behind the exit at k, and what it was started with
ProgramAt(c, k) == fs[trace[c][k - 1].inv.path].prog

\* The greatest element of a set of numbers
Last(S) == CHOOSE n \in S : \A m \in S : m <= n

\* The lines `header <key> <value>` of an error stream, and their parts
HeaderLines(lines) ==
  {i \in DOMAIN lines :
     /\ Len(lines[i]) >= 7
     /\ SubSeq(lines[i], 1, 7) = "header "
     /\ \E j \in 8..Len(lines[i]) : SubSeq(lines[i], j, j) = " "}

KeyEnd(line) ==
  CHOOSE j \in 8..Len(line) :
    SubSeq(line, j, j) = " " /\ \A m \in 8..(j - 1) : SubSeq(line, m, m) # " "

KeyOf(line) == SubSeq(line, 8, KeyEnd(line) - 1)

ValueOf(line) == SubSeq(line, KeyEnd(line) + 1, Len(line))

\* The lines `status <code>` of an error stream
StatusLines(lines) ==
  {i \in DOMAIN lines : Len(lines[i]) >= 7 /\ SubSeq(lines[i], 1, 7) = "status "}

\* What C7 says of the exit at k, lines being the lines of the error
\* stream: the body is the output stream, the headers are exactly the keys
\* of the `header <key> <value>` lines, each with the value of the last such
\* line, the status is the code of the last `status <code>` line (500 when
\* it is not a 16-bit number) or, without one, the status derived from the
\* exit code.
FromStreams(c, k, lines) ==
  LET prog == ProgramAt(c, k)
      inv == trace[c][k - 1].inv
      res == trace[c][k].res
      code == SubSeq(lines[Last(StatusLines(lines))], 8, Len(lines[Last(StatusLines(lines))]))
  IN /\ res.body = Stdout(prog, inv.stdin)
     /\ DOMAIN res.headers = {KeyOf(lines[i]) : i \in HeaderLines(lines)}
     /\ \A i \in HeaderLines(lines) :
          (\A j \in HeaderLines(lines) : KeyOf(lines[j]) = KeyOf(lines[i]) => j <= i)
            => res.headers[KeyOf(lines[i])] = ValueOf(lines[i])
     /\ res.status =
          (IF StatusLines(lines) = {}
             THEN (IF prog.exit[2] = 0 THEN 200 ELSE prog.exit[2])
           ELSE IF ParseU16(code) = <<>> THEN 500
           ELSE ParseU16(code)[1])

\* The exits of programs that were started, communicated and exited
CleanExits(c) ==
  {k \in ProcessExits(c) :
     ProgramAt(c, k).create /\ ProgramAt(c, k).comm /\ ProgramAt(c, k).exit[1] = "Exited"}

\* C7 as stated: for a program that was started and exited, the response of
\* run_cgi is made of the output stream and of the `header` and `status`
\* lines of the error stream, whatever the error stream holds.
C7_ResponseFromStreams ==
  \A c \in Conns : \A k \in CleanExits(c) :
    FromStreams(c, k, Stderr(ProgramAt(c, k), trace[c][k - 1].inv.env))

\* C7, amended: for a program that was started and exited, the response of
\* run_cgi is made of the output stream and of the `header` and `status`
\* lines of the error stream when the error stream is valid UTF-8; an error
\* stream that is not is read as one without lines, so that no header is
\* set and the status is the one derived from the exit code.
C7_ResponseFromDecodedStreams ==
  \A c \in Conns : \A k \in CleanExits(c) :
    FromStreams(c, k, IF ProgramAt(c, k).utf8
                        THEN Stderr(ProgramAt(c, k), trace[c][k - 1].inv.env)
                        ELSE <<>>)

\* A target wrote `status 201` and `header X-Test hello` to its error stream
\* and `body` to its output stream, exited, and its response is 201 with
\* that header and body.
C7_Witness ==
  \E c \in Conns : \E k \in ProcessExits(c) :
    /\ trace[c][k].stage = "target"
    /\ ProgramAt(c, k).utf8
    /\ Stderr(ProgramAt(c, k), trace[c][k - 1].inv.env) = <<"status 201", "header X-Test hello">>
    /\ ProgramAt(c, k).out = "body"
    /\ trace[c][k].res = [status |-> 201, headers |-> [x \in {"X-Test"} |-> "hello"],
                          body |-> "body"]

\* The error stream of the program behind the exit at k as run_cgi reads it
DecodedLines(c, k) ==
  IF ProgramAt(c, k).utf8
    THEN Stderr(ProgramAt(c, k), trace[c][k - 1].inv.env) ELSE <<>>

\* The generic error response
GenericError == [status |-> 500, headers |-> <<>>, body |-> "INTERNAL SERVER ERROR"]

\* C8 as stated: exit code 0 gives status 200 and any other exit code n
\* gives n, which is never 200; a failure to start the program, to talk to
\* it or to wait for it gives status 500, with the generic body and no
\* header for the first two.
C8_NonZeroExitIsNot200 ==
  \A c \in Conns : \A k \in ProcessExits(c) :
    LET prog == ProgramAt(c, k)
        res == trace[c][k].res
    IN /\ (~prog.create \/ ~prog.comm) => res = GenericError
       /\ (prog.create /\ prog.comm /\ prog.exit[1] = "WaitErr") => res.status = 500
       /\ (prog.create /\ prog.comm /\ prog.exit[1] = "Exited"
             /\ StatusLines(DecodedLines(c, k)) = {})
            => /\ prog.exit[2] = 0 => res.status = 200
               /\ prog.exit[2] # 0 => res.status = prog.exit[2] /\ res.status # 200

\* C8, amended: when no `status` line overrides it, exit code 0 gives status
\* 200 and any other exit code n gives n modulo 2^16, so exit code 200 gives
\* 200 as well; a failed wait counts as exit code 500 and a program ended by
\* a signal gives 500, both before the `status` lines are applied; a failure
\* to start the program or to talk to it gives the generic response: status
\* 500, the generic body, no header.
C8_ExitCodeIsStatus ==
  \A c \in Conns : \A k \in ProcessExits(c) :
    LET prog == ProgramAt(c, k)
        res == trace[c][k].res
    IN /\ (~prog.create \/ ~prog.comm) => res = GenericError
       /\ (prog.create /\ prog.comm /\ StatusLines(DecodedLines(c, k)) = {})
            => res.status =
                 (IF prog.exit[1] = "Exited"
                    THEN (IF prog.exit[2] = 0 THEN 200 ELSE prog.exit[2] % 65536)
                    ELSE 500)
       /\ (prog.create /\ prog.comm /\ prog.exit[1] # "Exited"
             /\ StatusLines(DecodedLines(c, k)) # {})
            => res = parse_output_commands(DecodedLines(c, k),
                       [status |-> 500, headers |-> <<>>, body |-> res.body])

\* A target exited with code 200 and no `status` line, and the request was
\* answered with status 200.
C8_Witness ==
  \E c \in Conns : \E k \in ProcessExits(c) :
    /\ Answered(c)
    /\ trace[c][k].stage = "target"
    /\ ProgramAt(c, k).exit = <<"Exited", 200>>
    /\ StatusLines(DecodedLines(c, k)) = {}
    /\ trace[c][k].res.status = 200
    /\ Answer(c).status = 200

\* C9: the response to a request depends on the request and the tree only:
\* any two requests that were equal when they arrived, on one connection
\* after the other or on two connections whose resolutions interleave with
\* each other and with other requests, are answered with equal responses.
C9_EqualRequestsEqualResponses ==
  \A c1, c2 \in Conns : \A i \in DOMAIN result[c1] : \A j \in DOMAIN result[c2] :
    result[c1][i][1] = result[c2][j][1] => result[c1][i][2] = result[c2][j][2]

\* "/" was answered twice on the first connection and once on the second,
\* the second one finishing while a resolution of the first was running;
\* the hooks of the working directory mutated each request on the way.
C9_Witness ==
  /\ Len(result[1]) = 2
  /\ Len(result[2]) = 1
  /\ result[1][1] = result[2][1]
  /\ result[1][2] = result[2][1]
  /\ result[2][1][1].url = <<"">>
  /\ result[2][1][2].body = "<<<<Hello"
  /\ 1 \in trace[2][Len(trace[2])].busy

\* The hook categories and the filename prefix of each
HookStages == {"gatekeeper", "req_transformer", "res_transformer", "logger"}

PrefixOf(stage) == "." \o stage

\* The starts of the hooks of one category in the activation at depth d
HookSpawns(c, stage, d) ==
  {k \in Events(c) : IsSpawn(trace[c][k], stage) /\ trace[c][k].depth = d}

SpawnedNames(c, stage, d) == {trace[c][k].name : k \in HookSpawns(c, stage, d)}

\* C10: in one activation and one hook category, every hook started is an
\* entry of the candidate directory whose name starts with the category's
\* prefix; the hooks start in strictly ascending byte-wise filename order,
\* so none starts twice; a hook has exited before anything else happens in
\* the resolution, so before the next one starts; and when the category is
\* over every such entry has been started (for the request transformers:
\* when no gatekeeper of the activation failed).
C10_HooksOnceInOrder ==
  \A c \in Conns :
    /\ \A k \in Events(c) :
         LET e == trace[c][k]
         IN (e.ev = "spawn" /\ e.stage \in HookStages) =>
              /\ e.name \in NamesWith(e.dir, PrefixOf(e.stage))
              /\ e.inv.path = e.dir \o <<e.name>>
              /\ \A j \in HookSpawns(c, e.stage, e.depth) :
                   j < k => StrLess(trace[c][j].name, e.name)
              /\ (k + 1 \in Events(c)) =>
                   /\ IsExit(trace[c][k + 1], e.stage)
                   /\ trace[c][k + 1].depth = e.depth
                   /\ trace[c][k + 1].name = e.name
              /\ (k + 1 \notin Events(c)) =>
                   /\ Active(c)
                   /\ Top(c).segment = e.depth
                   /\ Top(c).proc = <<e.inv>>
    /\ \A n \in Frames(c) :
         LET f == stack[c][n]
             opened == f.pc # "enter" /\ IsDir(fs, f.path) /\ fs[f.path].r
             denied == \E k \in GateExits(c, f.segment) : ~is_ok(trace[c][k].res)
         IN /\ (n < Len(stack[c])) => f.proc = <<>>
            /\ (opened /\ f.pc # "gatekeepers") =>
                 SpawnedNames(c, "gatekeeper", f.segment) = NamesWith(f.path, ".gatekeeper")
            /\ (opened /\ f.pc \notin {"gatekeepers", "req_transformers"}) =>
                 SpawnedNames(c, "req_transformer", f.segment) =
                   (IF denied THEN {} ELSE NamesWith(f.path, ".req_transformer"))
            /\ (opened /\ f.pc \in {"loggers", "return"}) =>
                 SpawnedNames(c, "res_transformer", f.segment) =
                   NamesWith(f.path, ".res_transformer")
            /\ (opened /\ f.pc = "return") =>
                 SpawnedNames(c, "logger", f.segment) = NamesWith(f.path, ".logger")

\* The gatekeepers .gatekeeper, .gatekeeper10 and .gatekeeper2 of one
\* directory, listed on disk in another order, were started in this order
\* and the stage is over.
C10_Witness ==
  \E c \in Conns : \E i, j, k \in Events(c) :
    /\ GatesOver(c)
    /\ i < j /\ j < k
    /\ IsSpawn(trace[c][i], "gatekeeper") /\ trace[c][i].name = ".gatekeeper"
    /\ IsSpawn(trace[c][j], "gatekeeper") /\ trace[c][j].name = ".gatekeeper10"
    /\ IsSpawn(trace[c][k], "gatekeeper") /\ trace[c][k].name = ".gatekeeper2"
    /\ trace[c][i].depth = Top(c).segment
    /\ trace[c][j].depth = Top(c).segment
    /\ trace[c][k].depth = Top(c).segment
    /\ Filter(fs[Top(c).path].entries, ".gatekeeper")
         = <<".gatekeeper2", ".gatekeeper10", ".gatekeeper">>

\* What a step adds to the trace of a connection
NewEvents(c) == SubSeq(trace'[c], Len(trace[c]) + 1, Len(trace'[c]))

\* A request with the headers of a hook's response merged in (an empty
\* value removes the header) and its body in place of the request's
Merged(req, res) ==
  [proto |-> req.proto, verb |-> req.verb, url |-> req.url,
   headers |->
     [h \in {x \in DOMAIN req.headers \cup DOMAIN res.headers :
               ~(x \in DOMAIN res.headers /\ res.headers[x] = "")} |->
        IF h \in DOMAIN res.headers THEN res.headers[h] ELSE req.headers[h]],
   body |-> res.body]

\* The process is given the request: its body on the input stream, its
\* headers in the environment
Receives(inv, req) ==
  /\ inv.stdin = req.body
  /\ \A h \in DOMAIN req.headers :
       /\ ("HEADER_" \o h) \in DOMAIN inv.env
       /\ inv.env["HEADER_" \o h] = req.headers[h]
  /\ \A v \in DOMAIN inv.env :
       (Len(v) > 7 /\ SubSeq(v, 1, 7) = "HEADER_")
         => SubSeq(v, 8, Len(v)) \in DOMAIN req.headers

\* One step of a running resolution, as C11 has it
TransformerStep(c) ==
  LET new == NewEvents(c)
      exits == {k \in DOMAIN new : IsExit(new[k], "req_transformer")}
      pushes == {k \in DOMAIN new : new[k].ev = "index"}
  IN /\ \A k \in DOMAIN new :
          /\ IsSpawn(new[k], "req_transformer") =>
               /\ Top(c).pc = "req_transformers"
               /\ is_ok(Top(c).response)
               /\ new[k].depth = Top(c).segment
          /\ (new[k].ev = "spawn" /\ new[k].stage # "res_transformer") =>
               /\ new[k].req = request[c]
               /\ Receives(new[k].inv, request[c])
     /\ \A k \in exits :
          request'[c] = (IF is_ok(new[k].res) THEN Merged(request[c], new[k].res)
                         ELSE request[c])
     /\ \A k \in pushes : request'[c] = [request[c] EXCEPT !.url = new[k].after]
     /\ (exits = {} /\ pushes = {}) => request'[c] = request[c]

\* C11: a request transformer starts only while the response of its
\* activation is ok and is given the request as it then is; when it ends
\* with an ok result the request gets its headers merged in (an empty value
\* removes the header, another one overwrites) and its body, and with
\* another result the request stays; apart from the index push nothing else
\* changes the request, so every later hook and target of the resolution,
\* at this depth and deeper, is given the request the transformers left.
C11_TransformersMutateRequest ==
  [][\A c \in Conns : (Active(c) /\ stack'[c] # <<>>) => TransformerStep(c)]_vars

\* Two request transformers of the working directory ran: the second was
\* given what the first left, it removed Host and overwrote X-Req, and the
\* target one level down was given the result.
C11_Witness ==
  \E c \in Conns : \E i, j, k \in Events(c) :
    /\ i < j /\ j < k
    /\ "Host" \in DOMAIN orig[c].headers
    /\ IsExit(trace[c][i], "req_transformer") /\ trace[c][i].name = ".req_transformer1"
    /\ IsSpawn(trace[c][j], "req_transformer") /\ trace[c][j].name = ".req_transformer2"
    /\ trace[c][j].inv.stdin = "rewritten"
    /\ trace[c][j].inv.env["HEADER_X-Req"] = "set"
    /\ IsSpawn(trace[c][k], "target")
    /\ trace[c][k].depth > trace[c][j].depth
    /\ trace[c][k].req.headers = [h \in {"X-Req"} |-> "again"]
    /\ trace[c][k].inv.stdin = "dropped"

\* C12: once a request transformer of a directory has returned a status
\* that is not ok, no target at or below the directory is read or run, no
\* deeper call is made, and the response of the activation, as it stands
\* before the response transformers, carries that status.
C12_TransformerFailureStops ==
  \A c \in Conns : \A k \in Events(c) :
    (IsExit(trace[c][k], "req_transformer") /\ ~is_ok(trace[c][k].res)) =>
      /\ \A j \in Events(c) :
           (j > k /\ trace[c][j].depth >= trace[c][k].depth)
             => /\ ~IsSpawn(trace[c][j], "target")
                /\ trace[c][j].ev \notin {"read", "call"}
      /\ \A n \in Frames(c) :
           (/\ stack[c][n].segment = trace[c][k].depth
            /\ stack[c][n].pc = "res_transformers"
            /\ stack[c][n].i = 1
            /\ stack[c][n].proc = <<>>)
             => stack[c][n].response.status = trace[c][k].res.status

\* The activation for a directory that passed the existence and
\* readability checks
Opened(f) == f.pc # "enter" /\ IsDir(fs, f.path) /\ fs[f.path].r

\* Headers with those of a hook's response merged in: an empty value removes
\* the header, another one overwrites
MergedHeaders(old, new) ==
  [h \in {x \in DOMAIN old \cup DOMAIN new : ~(x \in DOMAIN new /\ new[x] = "")} |->
     IF h \in DOMAIN new THEN new[h] ELSE old[h]]

\* C13: the response transformers of a visible directory have all run when
\* its activation reaches the loggers, whatever happened before.  Each is
\* started with a GET request that has the URL of the request and the
\* headers and body of the response as it then is, and with STATUS set to
\* the decimal status of that response; when it is over the response has
\* the hook's status and body, and its headers merged into the former ones.
C13_ResTransformersRewrite ==
  \A c \in Conns :
    /\ \A n \in Frames(c) :
         (Opened(stack[c][n]) /\ stack[c][n].pc \in {"loggers", "return"}) =>
           SpawnedNames(c, "res_transformer", stack[c][n].segment)
             = NamesWith(stack[c][n].path, ".res_transformer")
    /\ \A k \in Events(c) :
         LET e == trace[c][k]
         IN IsSpawn(e, "res_transformer") =>
              /\ e.req.verb = "GET"
              /\ e.req.proto = orig[c].proto
              /\ e.req.url = request[c].url
              /\ Receives(e.inv, e.req)
              /\ "STATUS" \in DOMAIN e.inv.env
              /\ (k = Len(trace[c])) =>
                   /\ e.req.headers = Top(c).response.headers
                   /\ e.req.body = Top(c).response.body
                   /\ ParseU16(e.inv.env["STATUS"]) = <<Top(c).response.status>>
              /\ (k + 1 = Len(trace[c]) /\ Active(c) /\ Top(c).pc = "res_transformers") =>
                   /\ Top(c).response.status = trace[c][k + 1].res.status
                   /\ Top(c).response.body = trace[c][k + 1].res.body
                   /\ Top(c).response.headers
                        = MergedHeaders(e.req.headers, trace[c][k + 1].res.headers)

\* A request for a missing entry came back from below with 404; the first
\* response transformer of the working directory was started with STATUS
\* 404 and answered 200 with a header, the second was started with that
\* response, and the client got the rewritten response.
C13_Witness ==
  \E c \in Conns : \E i, j, k \in Events(c) :
    /\ Answered(c)
    /\ i < j /\ j < k
    /\ trace[c][i].ev = "notfound"
    /\ IsSpawn(trace[c][j], "res_transformer")
    /\ trace[c][j].depth < trace[c][i].depth
    /\ trace[c][j].inv.env["STATUS"] = "404"
    /\ trace[c][j + 1].res.status = 200
    /\ IsSpawn(trace[c][k], "res_transformer")
    /\ trace[c][k].depth = trace[c][j].depth
    /\ trace[c][k].inv.env["STATUS"] = "200"
    /\ trace[c][k].req.headers = [h \in {"X-Res"} |-> "yes"]
    /\ trace[c][k].inv.stdin = "wrapped"
    /\ Answer(c) = [status |-> 200, headers |-> [h \in {"X-Res"} |-> "yes"],
                    body |-> "wrapped"]

\* What holds of the loggers started so far: each was given the request of
\* the resolution, and STATUS was the decimal status, never 0, that its
\* activation then had and returns
LoggersSeeFinalStatus(c) ==
  \A k \in Events(c) :
    LET e == trace[c][k]
    IN IsSpawn(e, "logger") =>
         /\ e.req = request[c]
         /\ Receives(e.inv, e.req)
         /\ "STATUS" \in DOMAIN e.inv.env
         /\ ParseU16(e.inv.env["STATUS"]) # <<>>
         /\ ParseU16(e.inv.env["STATUS"]) # <<0>>
         /\ (e.depth + 1 \in Frames(c)) =>
              <<stack[c][e.depth + 1].response.status>> = ParseU16(e.inv.env["STATUS"])
         /\ \A j \in Events(c) :
              (trace[c][j].ev \in {"return", "respond"} /\ trace[c][j].depth = e.depth)
                => <<trace[c][j].res.status>> = ParseU16(e.inv.env["STATUS"])

\* A step taken while the innermost activation of a connection is at its
\* loggers leaves its response and working configuration, the request and
\* the activations around it as they are
LoggerStepKeeps(c) ==
  (Active(c) /\ Top(c).pc = "loggers") =>
    /\ Len(stack'[c]) = Len(stack[c])
    /\ stack'[c][Len(stack[c])].response = Top(c).response
    /\ stack'[c][Len(stack[c])].config = Top(c).config
    /\ \A n \in 1..(Len(stack[c]) - 1) : stack'[c][n] = stack[c][n]
    /\ request'[c] = request[c]

\* C14: the loggers of a directory run after the status was normalized,
\* each with a copy of the request and with STATUS set to the status the
\* activation returns, which is not 0; running them changes neither the
\* response to be returned nor the request nor the working configuration,
\* whatever they write and however they end.
C14_LoggersChangeNothing ==
  /\ [](\A c \in Conns : LoggersSeeFinalStatus(c))
  /\ [][\A c \in Conns : LoggerStepKeeps(c)]_vars

\* A response transformer left status 0, the logger after it was started
\* with STATUS 200 and wrote `status 500` and a header, and the request was
\* answered with 200 and without that header.
C14_Witness ==
  \E c \in Conns : \E i, j \in Events(c) :
    /\ Answered(c)
    /\ i < j
    /\ IsExit(trace[c][i], "res_transformer")
    /\ trace[c][i].res.status = 0
    /\ IsExit(trace[c][j], "logger")
    /\ trace[c][j].depth = trace[c][i].depth
    /\ trace[c][j - 1].inv.env["STATUS"] = "200"
    /\ trace[c][j].res.status = 500
    /\ "X-Log" \in DOMAIN trace[c][j].res.headers
    /\ Answer(c).status = 200
    /\ "X-Log" \notin DOMAIN Answer(c).headers

\* C15: no activation of exec, at any depth, returns a response with status
\* 0, and no request is answered with status 0.
C15_NeverReturnsZero ==
  \A c \in Conns :
    /\ \A n \in Frames(c) : stack[c][n].pc = "return" => stack[c][n].response.status # 0
    /\ \A k \in Events(c) :
         trace[c][k].ev \in {"return", "respond", "notfound"} => trace[c][k].res.status # 0
    /\ \A k \in DOMAIN result[c] : result[c][k][2].status # 0

\* A target wrote `status 0` to its error stream, so that run_cgi gave a
\* response with status 0, and its activation returned 200.
C15_Witness ==
  \E c \in Conns : \E i, j \in Events(c) :
    /\ i < j
    /\ IsExit(trace[c][i], "target")
    /\ trace[c][i].res.status = 0
    /\ trace[c][j].ev = "return"
    /\ trace[c][j].depth = trace[c][i].depth
    /\ trace[c][j].res.status = 200
    /\ trace[c][j].res.body = trace[c][i].res.body

\* C16 as stated: every gatekeeper, at every depth, is given the request as
\* the listener passed it to exec.
C16_GatekeepersSeeOriginal ==
  \A c \in Conns : \A k \in Events(c) :
    IsSpawn(trace[c][k], "gatekeeper") =>
      /\ trace[c][k].req = orig[c]
      /\ Receives(trace[c][k].inv, orig[c])

\* What changed the request before the event at k: the ok results of
\* request transformers and the index pushes
Mutations(c, k) ==
  {j \in 1..(k - 1) :
     \/ IsExit(trace[c][j], "req_transformer") /\ is_ok(trace[c][j].res)
     \/ trace[c][j].ev = "index"}

\* What holds of the gatekeepers started so far: each was given the request
\* as it was when its activation began, which is the listener's request at
\* depth 0 and wherever no request transformer or index push of a shallower
\* activation came before; protocol and verb are always the listener's
GatekeepersSeeCurrent(c) ==
  \A k \in Events(c) :
    LET e == trace[c][k]
    IN IsSpawn(e, "gatekeeper") =>
         /\ Receives(e.inv, e.req)
         /\ e.req.proto = orig[c].proto
         /\ e.req.verb = orig[c].verb
         /\ \A j \in Mutations(c, k) : trace[c][j].depth < e.depth
         /\ Mutations(c, k) = {} => e.req = orig[c]
         /\ e.depth = 0 => e.req = orig[c]
         /\ \A j \in HookSpawns(c, "gatekeeper", e.depth) : trace[c][j].req = e.req

\* A step taken while the innermost activation of a connection is at its
\* gatekeepers starts them with the request as it is and leaves it so
GatekeeperStepKeeps(c) ==
  (Active(c) /\ Top(c).pc = "gatekeepers") =>
    /\ request'[c] = request[c]
    /\ \A k \in DOMAIN NewEvents(c) :
         IsSpawn(NewEvents(c)[k], "gatekeeper") => NewEvents(c)[k].req = request[c]

\* C16, amended: a gatekeeper is given a copy of the request as it is when
\* the activation of its directory begins: the listener's request at depth
\* 0, and at a deeper level that request with the headers and body left by
\* the request transformers of the shallower activations and with the index
\* names they pushed; running a gatekeeper changes nothing in the request.
C16_GatekeepersSeeCurrent ==
  /\ [](\A c \in Conns : GatekeepersSeeCurrent(c))
  /\ [][\A c \in Conns : GatekeeperStepKeeps(c)]_vars

\* A gatekeeper below the first activation was started with the body and a
\* header that a request transformer of a shallower activation had set, not
\* with the listener's, and it exited.
C16_Witness ==
  \E c \in Conns : \E k \in Events(c) :
    /\ IsSpawn(trace[c][k], "gatekeeper")
    /\ trace[c][k].depth > 0
    /\ orig[c].body = "payload"
    /\ trace[c][k].inv.stdin = "rewritten"
    /\ "X-Req" \in DOMAIN trace[c][k].req.headers
    /\ "X-Req" \notin DOMAIN orig[c].headers
    /\ k + 1 \in Events(c)
    /\ request[c] = trace[c][k].req

\* A filename that starts with one of the hook prefixes
IsHookName(name) ==
  \E stage \in HookStages :
    Len(name) >= Len(PrefixOf(stage)) /\ SubSeq(name, 1, Len(PrefixOf(stage))) = PrefixOf(stage)

\* C17: no resolution reads or runs as its target a file whose name starts
\* with a hook prefix; what is run as a target is other-readable and
\* other-executable, what is read is other-readable and not
\* other-executable.
C17_HooksNotAddressable ==
  \A c \in Conns : \A k \in Events(c) :
    LET e == trace[c][k]
    IN /\ IsSpawn(e, "target") =>
            /\ ~IsHookName(e.name)
            /\ fs[e.inv.path].r /\ fs[e.inv.path].x
       /\ e.ev = "read" =>
            /\ ~IsHookName(e.dir[Len(e.dir)])
            /\ fs[e.dir].r /\ ~fs[e.dir].x

\* The resolution of c waits for a program that never exits
InHungProgram(c) ==
  /\ Active(c)
  /\ Top(c).proc # None
  /\ ~Returns(Top(c).proc[1])

\* C18: a request is eventually answered unless one of its own programs
\* never exits, however many other requests wait for a hung program.
C18_HungProgramStallsOnlyItsRequest ==
  \A c \in Conns : (pending[c] # <<>>) ~> (Answered(c) \/ InHungProgram(c))

\* The pairs of operands combined so far, each with its result
Combined ==
  (IF combine.ab # None THEN {<<combine.a, combine.b, combine.ab[1]>>} ELSE {})
    \cup (IF combine.bc # None THEN {<<combine.b, combine.c, combine.bc[1]>>} ELSE {})
    \cup (IF combine.left # None THEN {<<combine.ab[1], combine.c, combine.left[1]>>} ELSE {})
    \cup (IF combine.right # None THEN {<<combine.a, combine.bc[1], combine.right[1]>>} ELSE {})

\* The index a configuration sets, if any
IndexSet(x) == IF IsSome(x.resolution) THEN x.resolution[1].index ELSE None

\* r is a configuration: two optional fields, an optional index
IsConfig(r) ==
  /\ DOMAIN r = {"resolution", "env"}
  /\ r.resolution = None
       \/ (IsSome(r.resolution) /\ DOMAIN r.resolution[1] = {"index"}
             /\ (r.resolution[1].index = None \/ IsSome(r.resolution[1].index)))
  /\ r.env = None \/ IsSome(r.env)

\* C19: a & b is a configuration for all a and b; a field set in one
\* operand only is that operand's; the index is b's when both set one; the
\* environment is the union with b's value for a key in both when both set
\* one; a field set in neither is unset.
C19_CombineRightBiased ==
  \A t \in Combined :
    LET a == t[1]
        b == t[2]
        r == t[3]
    IN /\ IsConfig(r)
       /\ IsSome(r.resolution) <=> (IsSome(a.resolution) \/ IsSome(b.resolution))
       /\ IndexSet(r) = (IF IsSome(IndexSet(b)) THEN IndexSet(b) ELSE IndexSet(a))
       /\ IsSome(r.env) <=> (IsSome(a.env) \/ IsSome(b.env))
       /\ (IsSome(a.env) /\ ~IsSome(b.env)) => r.env = a.env
       /\ (~IsSome(a.env) /\ IsSome(b.env)) => r.env = b.env
       /\ (IsSome(a.env) /\ IsSome(b.env)) =>
            /\ DOMAIN r.env[1] = DOMAIN a.env[1] \cup DOMAIN b.env[1]
            /\ \A k \in DOMAIN b.env[1] : r.env[1][k] = b.env[1][k]
            /\ \A k \in DOMAIN a.env[1] \ DOMAIN b.env[1] : r.env[1][k] = a.env[1][k]

\* Both operands set an index and a value for K, and they differ
C19_Witness ==
  /\ combine.ab # None
  /\ IsSome(IndexSet(combine.a)) /\ IsSome(IndexSet(combine.b))
  /\ IndexSet(combine.a) # IndexSet(combine.b)
  /\ IsSome(combine.a.env) /\ IsSome(combine.b.env)
  /\ "K" \in DOMAIN combine.a.env[1] \cap DOMAIN combine.b.env[1]
  /\ combine.a.env[1]["K"] # combine.b.env[1]["K"]
  /\ "L" \in DOMAIN combine.ab[1].env[1]
  /\ combine.ab[1].env[1]["K"] = combine.b.env[1]["K"]
  /\ IndexSet(combine.ab[1]) = IndexSet(combine.b)

\* C20: (a & b) & c = a & (b & c); the empty configuration is an identity
\* on both sides; a & a = a.
C20_CombineAssociative ==
  /\ (combine.left # None /\ combine.right # None) => combine.left = combine.right
  /\ \A t \in Combined :
       /\ t[1] = DefaultConfig => t[3] = t[2]
       /\ t[2] = DefaultConfig => t[3] = t[1]
       /\ t[1] = t[2] => t[3] = t[1]

\* Three different configurations, none of them empty, combined both ways
C20_Witness ==
  /\ combine.left # None /\ combine.right # None
  /\ Cardinality({combine.a, combine.b, combine.c, DefaultConfig}) = 4
  /\ IsSome(IndexSet(combine.a)) /\ IsSome(IndexSet(combine.c))
  /\ IndexSet(combine.a) # IndexSet(combine.c)
  /\ IsSome(combine.a.env) /\ IsSome(combine.b.env) /\ IsSome(combine.c.env)
  /\ combine.left[1] \notin {combine.a, combine.b, combine.c}

\* The table of Gemini codes from the first range on, first match winning
TableFrom200(n) ==
  IF n >= 200 /\ n < 300 THEN 20
  ELSE IF n = 301 THEN 31
  ELSE IF n = 302 \/ (n >= 300 /\ n < 400) THEN 30
  ELSE IF n = 503 THEN 41
  ELSE IF n = 500 THEN 42
  ELSE IF n = 502 THEN 43
  ELSE IF n = 429 THEN 44
  ELSE IF n >= 500 /\ n < 600 THEN 40
  ELSE IF n = 404 THEN 51
  ELSE IF n = 410 THEN 52
  ELSE IF n = 400 THEN 59
  ELSE IF n = 401 THEN 60
  ELSE IF n = 403 THEN 61
  ELSE IF n = 600 THEN 10
  ELSE IF n = 601 THEN 11
  ELSE 42

\* The adapter has converted its Response
Converted == adapter.out # None

\* C21 as stated: every value under 62, 0 included, is passed through
\* unchanged, every other value is mapped by the table.
C21_StatusTable ==
  Converted =>
    adapter.out[1].status =
      (IF adapter.res.status < 62 THEN adapter.res.status
       ELSE TableFrom200(adapter.res.status))

\* C21: 0 gives 20, a value from 1 to 61 is passed through unchanged,
\* every other value is mapped by the table, first match winning.
C21_StatusTableZeroIsSuccess ==
  Converted =>
    adapter.out[1].status =
      (IF adapter.res.status = 0 THEN 20
       ELSE IF adapter.res.status < 62 THEN adapter.res.status
       ELSE TableFrom200(adapter.res.status))

\* The status 0 was converted, to 20
C21_Witness ==
  /\ Converted
  /\ adapter.res.status = 0
  /\ adapter.out[1].status = 20

\* The MIME type of a Response: GEMINI_META, else Content-Type, else the
\* binary default
MimeOf(res) ==
  IF "GEMINI_META" \in DOMAIN res.headers THEN res.headers["GEMINI_META"]
  ELSE IF "Content-Type" \in DOMAIN res.headers THEN res.headers["Content-Type"]
  ELSE BinaryDefault

\* C22: a Gemini status from 20 to 29 comes with the MIME type as metadata
\* and the canonical body; a redirect (30 to 39) with the Location header
\* as metadata; a failure (40 and above) with the body, when it is text,
\* as metadata and an empty body.
C22_MetaFollowsGeminiStatus ==
  Converted =>
    LET res == adapter.res
        out == adapter.out[1]
    IN /\ (out.status >= 20 /\ out.status < 30) =>
            (out.meta = MimeOf(res) /\ out.body = res.body)
       /\ (out.status >= 30 /\ out.status < 40 /\ "Location" \in DOMAIN res.headers) =>
            out.meta = res.headers["Location"]
       /\ out.status >= 40 =>
            /\ out.body = ""
            /\ res.body # BinaryBody => out.meta = res.body

HookEvents(c) ==
  {k \in Events(c) : trace[c][k].ev \in {"spawn", "exit"} /\ trace[c][k].stage \in HookStages}

\* The exits of the response transformers of depth d before event k
ResExitsBefore(c, d, k) ==
  {j \in Events(c) : j < k /\ IsExit(trace[c][j], "res_transformer") /\ trace[c][j].depth = d}

Max(S) == CHOOSE x \in S : \A y \in S : y <= x

\* C24: for a call P and a deeper call C of one resolution, every
\* gatekeeper and request transformer of P is over before any hook of C
\* starts, every hook of C is over before any response transformer or logger
\* of P starts, the loggers of a call come after its response transformers,
\* and the first response transformer of P is started with the response C
\* returned, which is what C's last response transformer made of it.
C24_HookStagesNest ==
  \A c \in Conns :
    /\ \A j, k \in HookEvents(c) :
         LET p == trace[c][j]
             d == trace[c][k]
         IN /\ (p.depth < d.depth /\ p.stage \in {"gatekeeper", "req_transformer"}) => j < k
            /\ (p.depth < d.depth /\ p.stage \in {"res_transformer", "logger"}) => k < j
            /\ (p.depth = d.depth /\ p.stage = "res_transformer" /\ d.stage = "logger") => j < k
    /\ \A k \in Events(c) :
         (k > 1 /\ IsSpawn(trace[c][k], "res_transformer") /\ trace[c][k - 1].ev = "return") =>
           LET e == trace[c][k]
               ret == trace[c][k - 1]
               below == ResExitsBefore(c, e.depth + 1, k)
           IN /\ ret.depth = e.depth + 1
              /\ e.req.body = ret.res.body
              /\ e.req.headers = ret.res.headers
              /\ e.inv.stdin = ret.res.body
              /\ ParseU16(e.inv.env["STATUS"]) = <<ret.res.status>>
              /\ below # {} => ret.res.body = trace[c][Max(below)].res.body

\* The request for /A was answered: the working directory and A both have
\* a gatekeeper, a request transformer, a response transformer and a logger,
\* and the response transformer of the working directory got the body that
\* the one of A had produced.
C24_Witness ==
  /\ Answered(1)
  /\ \A stage \in HookStages : \A d \in {0, 1} :
       \E k \in Events(1) : IsExit(trace[1][k], stage) /\ trace[1][k].depth = d
  /\ \E k \in Events(1) :
       /\ IsSpawn(trace[1][k], "res_transformer")
       /\ trace[1][k].depth = 0
       /\ trace[1][k].dir = <<>>
       /\ ResExitsBefore(1, 1, k) # {}
       /\ trace[1][Max(ResExitsBefore(1, 1, k))].dir = <<"A">>
       /\ trace[1][k].inv.stdin = trace[1][Max(ResExitsBefore(1, 1, k))].res.body
       /\ trace[1][k].inv.stdin # ""

\* The file met at event k is served or run at its depth, and nothing
\* deeper is called afterwards
StopsAtFile(c, k) ==
  LET e == trace[c][k]
  IN /\ (e.ev = "open" /\ IsFile(fs, e.dir) /\ k + 1 \in Events(c)) =>
          /\ trace[c][k + 1].ev = "read" \/ IsSpawn(trace[c][k + 1], "target")
          /\ trace[c][k + 1].depth = e.depth
          /\ trace[c][k + 1].ev = "read" => trace[c][k + 1].dir = e.dir
          /\ IsSpawn(trace[c][k + 1], "target") => trace[c][k + 1].inv.path = e.dir
     /\ (e.ev = "read" \/ IsSpawn(e, "target")) =>
          \A j \in Events(c) :
            j > k => (trace[c][j].ev # "call" /\ trace[c][j].depth <= e.depth)

\* C25: a readable file met at depth d is served or run at depth d and no
\* deeper call follows; a target run at depth d gets as its second argument
\* the request's segments after the first d, joined in order.
C25_StopsAtFirstFile ==
  \A c \in Conns : \A k \in Events(c) :
    /\ StopsAtFile(c, k)
    /\ IsSpawn(trace[c][k], "target") =>
         trace[c][k].inv.args[2]
           = PathCollect("", Skip(trace[c][k].req.url, trace[c][k].depth))

====
